---------------------------- MODULE Spec2Model ----------------------------
(***************************************************************************)
(* A model of toy_xcb: the translation of the raw X11 event stream into    *)
(* the semantic Event model (window.rs), the keyboard state and its        *)
(* running modifier cache (keyboard.rs), and the Mods / Buttons bitfields  *)
(* (key.rs, mouse.rs).                                                     *)
(***************************************************************************)
EXTENDS Integers, Sequences, FiniteSets, TLC

(***************************************************************************)
(* Fixed-width bitwise arithmetic.                                         *)
(***************************************************************************)
Bit(x, i) == (x \div (2 ^ i)) % 2

BitAndW(a, b, w) ==
  LET f[i \in 0..w] == IF i = w THEN 0
                       ELSE Bit(a, i) * Bit(b, i) * (2 ^ i) + f[i + 1]
  IN  f[0]

BitOrW(a, b, w) ==
  LET f[i \in 0..w] == IF i = w THEN 0
                       ELSE (IF Bit(a, i) + Bit(b, i) > 0 THEN 2 ^ i ELSE 0) + f[i + 1]
  IN  f[0]

BitXorW(a, b, w) ==
  LET f[i \in 0..w] == IF i = w THEN 0
                       ELSE (IF Bit(a, i) # Bit(b, i) THEN 2 ^ i ELSE 0) + f[i + 1]
  IN  f[0]

BitNotW(a, w) == (2 ^ w - 1) - (a % (2 ^ w))

\* a & !b on u32 operands below 2^30 (x & !b = x - (x & b))
BitClear(a, b) == a - BitAndW(a, b, 30)

BitAnd8(a, b) == BitAndW(a, b, 8)

BitOr8(a, b) == BitOrW(a, b, 8)

BitNot8(a) == BitNotW(a, 8)

BitXor8(a, b) == BitXorW(a, b, 8)

(***************************************************************************)
(* key.rs: the Mods bit layout.                                            *)
(***************************************************************************)
MODS_CTRL_MASK == 1
MODS_SHIFT_MASK == 2
MODS_META_MASK == 4
MODS_ALT_MASK == 8
MODS_SUPER_MASK == 16
MODS_KEY_MASK == 31
MODS_LEFT_MASK == 32
MODS_RIGHT_MASK == 64
MODS_SIDE_MASK == 96

MODS_LEFT_CTRL == BitOr8(MODS_LEFT_MASK, MODS_CTRL_MASK)
MODS_LEFT_SHIFT == BitOr8(MODS_LEFT_MASK, MODS_SHIFT_MASK)
MODS_LEFT_ALT == BitOr8(MODS_LEFT_MASK, MODS_ALT_MASK)
MODS_LEFT_SUPER == BitOr8(MODS_LEFT_MASK, MODS_SUPER_MASK)
MODS_RIGHT_CTRL == BitOr8(MODS_RIGHT_MASK, MODS_CTRL_MASK)
MODS_RIGHT_SHIFT == BitOr8(MODS_RIGHT_MASK, MODS_SHIFT_MASK)
MODS_RIGHT_ALT == BitOr8(MODS_RIGHT_MASK, MODS_ALT_MASK)
MODS_RIGHT_SUPER == BitOr8(MODS_RIGHT_MASK, MODS_SUPER_MASK)

\* variant: the field is stored unmasked
Mods_new_unmasked(fields) == fields

\* Mods::new: a Mods value is its u8 field, masked on construction
Mods_new(fields) == BitAnd8(fields, BitOr8(MODS_KEY_MASK, MODS_SIDE_MASK))

\* impl BitAnd, BitOr, BitXor for Mods
Mods_bitand(a, b) == BitAnd8(a, b)
Mods_bitor(a, b) == BitOr8(a, b)
Mods_bitxor(a, b) == BitXor8(a, b)

Mods_is_left(m) == BitAnd8(m, MODS_LEFT_MASK) # 0
Mods_is_right(m) == BitAnd8(m, MODS_RIGHT_MASK) # 0
Mods_has_ctrl(m) == BitAnd8(m, MODS_CTRL_MASK) # 0
Mods_has_shift(m) == BitAnd8(m, MODS_SHIFT_MASK) # 0
Mods_has_meta(m) == BitAnd8(m, MODS_META_MASK) # 0
Mods_has_alt(m) == BitAnd8(m, MODS_ALT_MASK) # 0
Mods_has_super(m) == BitAnd8(m, MODS_SUPER_MASK) # 0

\* key.rs SYM_LATIN1_SMALL_MASK
SYM_LATIN1_SMALL_MASK == 32

\* key.rs Sym::Unknown = 0x0000_ffdf and Sym::F1, as <<high, low>> halves
Sym_Unknown == <<0, 65503>>
Sym_F1 == <<32768, 26>>

(***************************************************************************)
(* mouse.rs: the Buttons bit layout.                                       *)
(***************************************************************************)
NONE == 0
LEFT == 1
MIDDLE == 2
RIGHT == 4
MASK == 7

Buttons_new(fields) == BitAnd8(fields, MASK)
\* impl BitAnd, BitOr, BitXor for Buttons
Buttons_bitand(a, b) == BitAnd8(a, b)
\* variant: the union is computed as the symmetric difference
Buttons_bitor_as_xor(a, b) == BitXor8(a, b)
Buttons_bitor(a, b) == BitOr8(a, b)
Buttons_bitxor(a, b) == BitXor8(a, b)

Buttons_is_none(m) == m = NONE
\* variant: one common bit is enough
Buttons_has_all_one_bit(m, fields) == BitAnd8(m, fields) # 0
Buttons_has_all(m, fields) == BitAnd8(m, fields) = fields
Buttons_has_any(m, fields) == BitAnd8(m, fields) # 0
Buttons_has_none(m, fields) == BitAnd8(m, fields) = 0

Buttons_none == NONE
Buttons_left == LEFT
Buttons_middle == MIDDLE
Buttons_right == RIGHT

(***************************************************************************)
(* The static tables.                                                      *)
(***************************************************************************)
\* keyboard.rs build_keycode_table: the dense table indexed by raw scan code;
\* entry i+1 of the tuple is the key::Code of scan code i.
keycode_table ==
  <<
     "Unknown", "Unknown", "Unknown", "Unknown", "Unknown", "Unknown", "Unknown", "Unknown",
     "Unknown", "Escape", "N1", "N2", "N3", "N4", "N5", "N6",
     "N7", "N8", "N9", "N0", "Minus", "Equals", "Backspace", "Tab",
     "Q", "W", "E", "R", "T", "Y", "U", "I",
     "O", "P", "LeftBracket", "RightBracket", "Enter", "LeftCtrl", "A", "S",
     "D", "F", "G", "H", "J", "K", "L", "Semicolon",
     "Quote", "Grave", "LeftShift", "UK_Hash", "Z", "X", "C", "V",
     "B", "N", "M", "Comma", "Period", "Slash", "RightShift", "KP_Multiply",
     "LeftAlt", "Space", "CapsLock", "F1", "F2", "F3", "F4", "F5",
     "F6", "F7", "F8", "F9", "F10", "KP_NumLock", "ScrollLock", "KP_7",
     "KP_8", "KP_9", "KP_Subtract", "KP_4", "KP_5", "KP_6", "KP_Add", "KP_1",
     "KP_2", "KP_3", "KP_0", "KP_Period", "Unknown", "Unknown", "UK_Backslash", "F11",
     "F12", "Unknown", "LANG3", "LANG4", "Unknown", "Unknown", "Unknown", "Unknown",
     "KP_Enter", "RightCtrl", "KP_Divide", "PrintScreen", "RightAlt", "Unknown", "Home", "Up",
     "PageUp", "Left", "Right", "End", "Down", "PageDown", "Insert", "Delete",
     "Unknown", "Mute", "VolumeDown", "VolumeUp", "Unknown", "KP_Equal", "KP_PlusMinus", "Pause",
     "Unknown", "KP_Decimal", "LANG1", "LANG2", "Unknown", "Unknown", "Unknown", "Menu",
     "Cancel", "Again", "Unknown", "Undo", "Unknown", "Copy", "Unknown", "Paste",
     "Find", "Cut", "Help", "Unknown", "Unknown", "Unknown", "Unknown", "Unknown",
     "Unknown", "Unknown", "Unknown", "Unknown", "Unknown", "Unknown", "Unknown", "Unknown",
     "Unknown", "Unknown", "Unknown", "Unknown", "Unknown", "Unknown", "Unknown", "Unknown",
     "Unknown", "Unknown", "Unknown", "Unknown", "Unknown", "Unknown", "Unknown", "Unknown",
     "Unknown", "Unknown", "Unknown", "Unknown", "Unknown", "Unknown", "Unknown", "Unknown",
     "Unknown", "Unknown", "Unknown", "Unknown", "Unknown", "Unknown", "Unknown", "Unknown",
     "Unknown", "Unknown", "Unknown", "Unknown", "Unknown", "Unknown", "Unknown", "Unknown",
     "Unknown", "Unknown", "Unknown", "Unknown", "Unknown", "Unknown", "Unknown", "Unknown",
     "Unknown", "Unknown", "Unknown", "Unknown", "Unknown", "Unknown", "Unknown", "Unknown",
     "Unknown", "Unknown", "Unknown", "Unknown", "Unknown", "Unknown", "Unknown", "Unknown",
     "Unknown", "Unknown", "Unknown", "Unknown", "Unknown", "Unknown", "Unknown", "Unknown",
     "Unknown", "Unknown", "Unknown", "Unknown", "Unknown", "Unknown", "Unknown", "Unknown",
     "Unknown", "Unknown", "Unknown", "Unknown", "Unknown", "Unknown", "Unknown", "Unknown",
     "Unknown", "Unknown", "Unknown", "Unknown", "Unknown", "Unknown", "Unknown", "Unknown"
  >>

\* key.rs enum Sym: the discriminant of every variant, as the pair
\* <<high 16 bits, low 16 bits>> of its 32-bit value.
SymVariants ==
  {
     <<0, 0>>, <<0, 32>>, <<0, 33>>, <<0, 34>>, <<0, 35>>, <<0, 36>>,
     <<0, 37>>, <<0, 38>>, <<0, 39>>, <<0, 40>>, <<0, 41>>, <<0, 42>>,
     <<0, 43>>, <<0, 44>>, <<0, 45>>, <<0, 46>>, <<0, 47>>, <<0, 48>>,
     <<0, 49>>, <<0, 50>>, <<0, 51>>, <<0, 52>>, <<0, 53>>, <<0, 54>>,
     <<0, 55>>, <<0, 56>>, <<0, 57>>, <<0, 58>>, <<0, 59>>, <<0, 60>>,
     <<0, 61>>, <<0, 62>>, <<0, 63>>, <<0, 64>>, <<0, 65>>, <<0, 66>>,
     <<0, 67>>, <<0, 68>>, <<0, 69>>, <<0, 70>>, <<0, 71>>, <<0, 72>>,
     <<0, 73>>, <<0, 74>>, <<0, 75>>, <<0, 76>>, <<0, 77>>, <<0, 78>>,
     <<0, 79>>, <<0, 80>>, <<0, 81>>, <<0, 82>>, <<0, 83>>, <<0, 84>>,
     <<0, 85>>, <<0, 86>>, <<0, 87>>, <<0, 88>>, <<0, 89>>, <<0, 90>>,
     <<0, 91>>, <<0, 92>>, <<0, 93>>, <<0, 94>>, <<0, 95>>, <<0, 96>>,
     <<0, 123>>, <<0, 124>>, <<0, 125>>, <<0, 126>>, <<0, 65503>>, <<128, 1>>,
     <<128, 2>>, <<128, 3>>, <<128, 4>>, <<128, 5>>, <<128, 6>>, <<128, 7>>,
     <<128, 8>>, <<128, 9>>, <<128, 10>>, <<128, 11>>, <<128, 12>>, <<128, 13>>,
     <<128, 14>>, <<128, 15>>, <<128, 16>>, <<128, 17>>, <<128, 18>>, <<128, 19>>,
     <<128, 20>>, <<128, 21>>, <<128, 22>>, <<128, 23>>, <<128, 24>>, <<128, 25>>,
     <<128, 26>>, <<128, 27>>, <<128, 28>>, <<128, 29>>, <<128, 30>>, <<128, 31>>,
     <<128, 32>>, <<128, 33>>, <<128, 34>>, <<128, 35>>, <<128, 36>>, <<128, 37>>,
     <<128, 38>>, <<128, 39>>, <<128, 40>>, <<128, 41>>, <<128, 42>>, <<128, 43>>,
     <<128, 44>>, <<128, 45>>, <<128, 46>>, <<128, 47>>, <<128, 48>>, <<128, 49>>,
     <<161, 0>>, <<162, 0>>, <<164, 0>>, <<168, 0>>, <<176, 0>>, <<193, 0>>,
     <<194, 0>>, <<196, 0>>, <<200, 0>>, <<208, 0>>, <<225, 0>>, <<226, 0>>,
     <<228, 0>>, <<232, 0>>, <<240, 0>>, <<8192, 1>>, <<8192, 2>>, <<8192, 3>>,
     <<8192, 4>>, <<8192, 5>>, <<8192, 6>>, <<8192, 7>>, <<8192, 8>>, <<8192, 9>>,
     <<8192, 10>>, <<8192, 11>>, <<8192, 12>>, <<8192, 13>>, <<8192, 14>>, <<8192, 15>>,
     <<8192, 16>>, <<8192, 17>>, <<8192, 18>>, <<8192, 19>>, <<8192, 20>>, <<8192, 21>>,
     <<8192, 22>>, <<8192, 23>>, <<8192, 24>>, <<8192, 25>>, <<8192, 26>>, <<8192, 27>>,
     <<8192, 28>>, <<8192, 29>>, <<8192, 30>>, <<8192, 31>>, <<8192, 32>>, <<8192, 33>>,
     <<8192, 34>>, <<8192, 35>>, <<8192, 36>>, <<8192, 37>>, <<8192, 38>>, <<8192, 39>>,
     <<8192, 40>>, <<8192, 41>>, <<8192, 42>>, <<8192, 43>>, <<8192, 44>>, <<8192, 45>>,
     <<8192, 46>>, <<8192, 47>>, <<8192, 48>>, <<8192, 49>>, <<8192, 50>>, <<8192, 51>>,
     <<8192, 52>>, <<8192, 53>>, <<8192, 54>>, <<8192, 55>>, <<8192, 56>>, <<8192, 57>>,
     <<8192, 58>>, <<8192, 59>>, <<8192, 60>>, <<8192, 61>>, <<8192, 62>>, <<8192, 63>>,
     <<8192, 64>>, <<8192, 65>>, <<8192, 66>>, <<8192, 67>>, <<8192, 68>>, <<8192, 69>>,
     <<8192, 70>>, <<8192, 71>>, <<8192, 72>>, <<8192, 73>>, <<8192, 74>>, <<8192, 75>>,
     <<8192, 76>>, <<8192, 77>>, <<8192, 78>>, <<8192, 79>>, <<8192, 80>>, <<8192, 81>>,
     <<8192, 82>>, <<8192, 83>>, <<8192, 84>>, <<8192, 85>>, <<8192, 86>>, <<8192, 87>>,
     <<8192, 88>>, <<8192, 89>>, <<8192, 90>>, <<8192, 91>>, <<8192, 92>>, <<8192, 93>>,
     <<8192, 94>>, <<8192, 95>>, <<8192, 96>>, <<8192, 97>>, <<8192, 98>>, <<8192, 99>>,
     <<8192, 100>>, <<8192, 101>>, <<8192, 102>>, <<8192, 103>>, <<8192, 104>>, <<8192, 105>>,
     <<8192, 106>>, <<8192, 107>>, <<8192, 108>>, <<8192, 109>>, <<8192, 110>>, <<8192, 111>>,
     <<8192, 112>>, <<8192, 113>>, <<8192, 114>>, <<8192, 115>>, <<8192, 116>>, <<8192, 117>>,
     <<8192, 118>>, <<8192, 119>>, <<8192, 120>>, <<8192, 121>>, <<8192, 122>>, <<8192, 123>>,
     <<8192, 124>>, <<8192, 125>>, <<8192, 126>>, <<8192, 127>>, <<8192, 128>>, <<8192, 129>>,
     <<8192, 130>>, <<8192, 131>>, <<8192, 132>>, <<8192, 133>>, <<8192, 134>>, <<8192, 135>>,
     <<8192, 136>>, <<8192, 137>>, <<8192, 138>>, <<8192, 139>>, <<8192, 140>>, <<8192, 141>>,
     <<8192, 142>>, <<8192, 143>>, <<8192, 144>>, <<8192, 145>>, <<8192, 146>>, <<8192, 147>>,
     <<8192, 148>>, <<8192, 149>>, <<8192, 150>>, <<8192, 151>>, <<8192, 152>>, <<8192, 153>>,
     <<8192, 154>>, <<8192, 155>>, <<8192, 156>>, <<8192, 157>>, <<8192, 158>>, <<8192, 159>>,
     <<8192, 160>>, <<8192, 161>>, <<8192, 162>>, <<8192, 163>>, <<8192, 164>>, <<8192, 165>>,
     <<8192, 166>>, <<8192, 167>>, <<8192, 168>>, <<8192, 169>>, <<8192, 170>>, <<8192, 171>>,
     <<8192, 172>>, <<8192, 173>>, <<8192, 174>>, <<8192, 175>>, <<8192, 176>>, <<8192, 177>>,
     <<8192, 178>>, <<8192, 179>>, <<8192, 180>>, <<16384, 1>>, <<16384, 2>>, <<16384, 3>>,
     <<16384, 4>>, <<16384, 5>>, <<16384, 6>>, <<16384, 7>>, <<16384, 8>>, <<16384, 9>>,
     <<16384, 10>>, <<16384, 11>>, <<16384, 12>>, <<16384, 13>>, <<16384, 14>>, <<16384, 15>>,
     <<16384, 16>>, <<16384, 17>>, <<16384, 18>>, <<16384, 19>>, <<16384, 20>>, <<16384, 21>>,
     <<16384, 22>>, <<16384, 23>>, <<16384, 24>>, <<16384, 25>>, <<16384, 26>>, <<16384, 27>>,
     <<32768, 1>>, <<32768, 2>>, <<32768, 3>>, <<32768, 4>>, <<32768, 5>>, <<32768, 6>>,
     <<32768, 7>>, <<32768, 8>>, <<32768, 9>>, <<32768, 10>>, <<32768, 11>>, <<32768, 12>>,
     <<32768, 13>>, <<32768, 14>>, <<32768, 15>>, <<32768, 16>>, <<32768, 17>>, <<32768, 18>>,
     <<32768, 19>>, <<32768, 20>>, <<32768, 21>>, <<32768, 22>>, <<32768, 23>>, <<32768, 24>>,
     <<32768, 25>>, <<32768, 26>>, <<32768, 27>>, <<32768, 28>>, <<32768, 29>>, <<32768, 30>>,
     <<32768, 31>>, <<32768, 32>>, <<32768, 33>>, <<32768, 34>>, <<32768, 35>>, <<32768, 36>>,
     <<32768, 37>>, <<32768, 38>>, <<32768, 39>>, <<32768, 40>>, <<32768, 41>>, <<32768, 42>>,
     <<32768, 43>>, <<32768, 44>>, <<32768, 45>>, <<32768, 46>>, <<32768, 47>>, <<32768, 48>>
  }

\* key.rs enum Code: the names of the variants
CodeVariants ==
  {
     "None", "ErrorRollOver", "POSTFail", "ErrorUndefined", "A", "B",
     "C", "D", "E", "F", "G", "H",
     "I", "J", "K", "L", "M", "N",
     "O", "P", "Q", "R", "S", "T",
     "U", "V", "W", "X", "Y", "Z",
     "N1", "N2", "N3", "N4", "N5", "N6",
     "N7", "N8", "N9", "N0", "Enter", "Escape",
     "Backspace", "Tab", "Space", "Minus", "Equals", "LeftBracket",
     "RightBracket", "Backslash", "UK_Hash", "Semicolon", "Quote", "Grave",
     "Comma", "Period", "Slash", "CapsLock", "F1", "F2",
     "F3", "F4", "F5", "F6", "F7", "F8",
     "F9", "F10", "F11", "F12", "PrintScreen", "ScrollLock",
     "Pause", "Insert", "Home", "PageUp", "Delete", "End",
     "PageDown", "Right", "Left", "Down", "Up", "KP_NumLock",
     "KP_Divide", "KP_Multiply", "KP_Subtract", "KP_Add", "KP_Enter", "KP_1",
     "KP_2", "KP_3", "KP_4", "KP_5", "KP_6", "KP_7",
     "KP_8", "KP_9", "KP_0", "KP_Period", "UK_Backslash", "KP_Equal",
     "F13", "F14", "F15", "F16", "F17", "F18",
     "F19", "F20", "F21", "F22", "F23", "F24",
     "Execute", "Help", "Menu", "Select", "Stop", "Again",
     "Undo", "Cut", "Copy", "Paste", "Find", "Mute",
     "VolumeUp", "VolumeDown", "LockingCapsLock", "LockingNumLock", "LockingScrollLock", "KP_Comma",
     "KP_EqualSign", "International1", "International2", "International3", "International4", "International5",
     "International6", "International7", "International8", "International9", "LANG1", "LANG2",
     "LANG3", "LANG4", "LANG5", "LANG6", "LANG7", "LANG8",
     "LANG9", "AltErase", "SysReq", "Cancel", "Clear", "Prior",
     "Return", "Separator", "Out", "Oper", "ClearAgain", "CrSelProps",
     "ExSel", "KP_00", "KP_000", "ThousandsSep", "DecimalSep", "CurrencyUnit",
     "CurrencySubUnit", "KP_LeftParent", "KP_RightParent", "KP_LeftCurly", "KP_RightCurly", "KP_Tab",
     "KP_Backspace", "KP_A", "KP_B", "KP_C", "KP_D", "KP_E",
     "KP_F", "KP_XOR", "KP_Pow", "KP_Percent", "KP_LeftAngle", "KP_RightAngle",
     "KP_BitAnd", "KP_LogicAnd", "KP_BitOr", "KP_LogicOr", "KP_Colon", "KP_Hash",
     "KP_Space", "KP_At", "KP_Not", "KP_MemStore", "KP_MemRecall", "KP_MemClear",
     "KP_MemAdd", "KP_MemSubtract", "KP_MemMultiply", "KP_MemDivide", "KP_PlusMinus", "KP_Clear",
     "KP_ClearEntry", "KP_Binary", "KP_Octal", "KP_Decimal", "KP_Hexadecimal", "LeftCtrl",
     "LeftShift", "LeftAlt", "LeftSuper", "RightCtrl", "RightShift", "RightAlt",
     "RightSuper", "Unknown"
  }

\* key.rs enum Sym: the discriminant of the variant Fk, for every k that
\* names a variant
Sym_Fn ==
     (1 :> <<32768, 26>>) @@ (2 :> <<32768, 27>>) @@ (3 :> <<32768, 28>>) @@ (4 :> <<32768, 29>>)
  @@
     (5 :> <<32768, 30>>) @@ (6 :> <<32768, 31>>) @@ (7 :> <<32768, 32>>) @@ (8 :> <<32768, 33>>)
  @@
     (9 :> <<32768, 34>>) @@ (10 :> <<32768, 35>>) @@ (11 :> <<32768, 36>>) @@ (12 :> <<32768, 37>>)
  @@
     (13 :> <<32768, 38>>) @@ (14 :> <<32768, 39>>) @@ (15 :> <<32768, 40>>) @@ (16 :> <<32768, 41>>)
  @@
     (18 :> <<32768, 42>>) @@ (19 :> <<32768, 43>>) @@ (20 :> <<32768, 44>>) @@ (21 :> <<32768, 45>>)
  @@
     (22 :> <<32768, 46>>) @@ (23 :> <<32768, 47>>) @@ (24 :> <<32768, 48>>)

\* keyboard.rs build_keysym_map: raw key symbol -> Sym discriminant.
keysym_map ==
     (65027 :> <<200, 0>>) @@ (65056 :> <<32768, 3>>) @@ (65288 :> <<32768, 4>>) @@ (65289 :> <<32768, 2>>)
  @@
     (65291 :> <<32768, 6>>) @@ (65293 :> <<32768, 5>>) @@ (65299 :> <<32768, 8>>) @@ (65300 :> <<32768, 12>>)
  @@
     (65307 :> <<32768, 1>>) @@ (65360 :> <<32768, 19>>) @@ (65361 :> <<32768, 13>>) @@ (65362 :> <<32768, 14>>)
  @@
     (65363 :> <<32768, 15>>) @@ (65364 :> <<32768, 16>>) @@ (65365 :> <<32768, 17>>) @@ (65366 :> <<32768, 18>>)
  @@
     (65367 :> <<32768, 20>>) @@ (65377 :> <<32768, 21>>) @@ (65379 :> <<32768, 22>>) @@ (65383 :> <<32768, 23>>)
  @@
     (65386 :> <<32768, 24>>) @@ (65406 :> <<128, 49>>) @@ (65407 :> <<32768, 11>>) @@ (65421 :> <<16384, 1>>)
  @@
     (65429 :> <<16384, 3>>) @@ (65430 :> <<16384, 10>>) @@ (65431 :> <<16384, 8>>) @@ (65432 :> <<16384, 11>>)
  @@
     (65433 :> <<16384, 9>>) @@ (65434 :> <<16384, 6>>) @@ (65435 :> <<16384, 7>>) @@ (65436 :> <<16384, 5>>)
  @@
     (65437 :> <<16384, 4>>) @@ (65439 :> <<16384, 2>>) @@ (65450 :> <<16384, 13>>) @@ (65451 :> <<16384, 14>>)
  @@
     (65452 :> <<16384, 18>>) @@ (65453 :> <<16384, 16>>) @@ (65454 :> <<16384, 17>>) @@ (65455 :> <<16384, 15>>)
  @@
     (65456 :> <<16384, 19>>) @@ (65457 :> <<16384, 20>>) @@ (65458 :> <<16384, 21>>) @@ (65459 :> <<16384, 22>>)
  @@
     (65460 :> <<16384, 23>>) @@ (65462 :> <<16384, 24>>) @@ (65463 :> <<16384, 25>>) @@ (65464 :> <<16384, 26>>)
  @@
     (65465 :> <<16384, 27>>) @@ (65469 :> <<16384, 12>>) @@ (65505 :> <<162, 0>>) @@ (65506 :> <<194, 0>>)
  @@
     (65507 :> <<161, 0>>) @@ (65508 :> <<193, 0>>) @@ (65509 :> <<32768, 10>>) @@ (65510 :> <<226, 0>>)
  @@
     (65511 :> <<164, 0>>) @@ (65512 :> <<196, 0>>) @@ (65513 :> <<168, 0>>) @@ (65514 :> <<200, 0>>)
  @@
     (65515 :> <<176, 0>>) @@ (65516 :> <<208, 0>>) @@ (65535 :> <<32768, 6>>) @@ (268500852 :> <<32768, 3>>)
  @@
     (268828432 :> <<32768, 36>>) @@ (268828433 :> <<32768, 37>>) @@ (268828512 :> <<32768, 7>>) @@ (268959488 :> <<32768, 7>>)
  @@
     (269024801 :> <<8192, 71>>) @@ (269025026 :> <<8192, 44>>) @@ (269025027 :> <<8192, 45>>) @@ (269025028 :> <<8192, 46>>)
  @@
     (269025029 :> <<8192, 47>>) @@ (269025030 :> <<8192, 48>>) @@ (269025040 :> <<8192, 23>>) @@ (269025041 :> <<8192, 5>>)
  @@
     (269025042 :> <<8192, 6>>) @@ (269025043 :> <<8192, 7>>) @@ (269025044 :> <<8192, 13>>) @@ (269025045 :> <<8192, 14>>)
  @@
     (269025046 :> <<8192, 15>>) @@ (269025047 :> <<8192, 16>>) @@ (269025048 :> <<8192, 20>>) @@ (269025049 :> <<8192, 26>>)
  @@
     (269025051 :> <<8192, 22>>) @@ (269025052 :> <<8192, 17>>) @@ (269025053 :> <<8192, 69>>) @@ (269025054 :> <<8192, 54>>)
  @@
     (269025055 :> <<8192, 70>>) @@ (269025056 :> <<8192, 94>>) @@ (269025057 :> <<8192, 133>>) @@ (269025058 :> <<8192, 135>>)
  @@
     (269025062 :> <<8192, 1>>) @@ (269025063 :> <<8192, 2>>) @@ (269025064 :> <<8192, 3>>) @@ (269025065 :> <<8192, 4>>)
  @@
     (269025066 :> <<8192, 49>>) @@ (269025067 :> <<8192, 50>>) @@ (269025068 :> <<8192, 51>>) @@ (269025069 :> <<8192, 52>>)
  @@
     (269025070 :> <<8192, 53>>) @@ (269025071 :> <<8192, 165>>) @@ (269025072 :> <<8192, 21>>) @@ (269025073 :> <<8192, 18>>)
  @@
     (269025074 :> <<8192, 27>>) @@ (269025075 :> <<8192, 25>>) @@ (269025077 :> <<8192, 55>>) @@ (269025078 :> <<8192, 56>>)
  @@
     (269025079 :> <<8192, 57>>) @@ (269025080 :> <<8192, 24>>) @@ (269025081 :> <<8192, 58>>) @@ (269025082 :> <<8192, 59>>)
  @@
     (269025083 :> <<8192, 60>>) @@ (269025084 :> <<8192, 61>>) @@ (269025085 :> <<8192, 62>>) @@ (269025086 :> <<8192, 63>>)
  @@
     (269025087 :> <<8192, 64>>) @@ (269025088 :> <<8192, 28>>) @@ (269025089 :> <<8192, 29>>) @@ (269025090 :> <<8192, 30>>)
  @@
     (269025091 :> <<8192, 31>>) @@ (269025092 :> <<8192, 32>>) @@ (269025093 :> <<8192, 33>>) @@ (269025094 :> <<8192, 34>>)
  @@
     (269025095 :> <<8192, 35>>) @@ (269025096 :> <<8192, 36>>) @@ (269025097 :> <<8192, 37>>) @@ (269025098 :> <<8192, 38>>)
  @@
     (269025099 :> <<8192, 39>>) @@ (269025100 :> <<8192, 40>>) @@ (269025101 :> <<8192, 41>>) @@ (269025102 :> <<8192, 42>>)
  @@
     (269025103 :> <<8192, 43>>) @@ (269025104 :> <<8192, 65>>) @@ (269025105 :> <<8192, 66>>) @@ (269025106 :> <<8192, 67>>)
  @@
     (269025107 :> <<8192, 68>>) @@ (269025108 :> <<8192, 69>>) @@ (269025109 :> <<32768, 9>>) @@ (269025110 :> <<8192, 72>>)
  @@
     (269025111 :> <<8192, 73>>) @@ (269025112 :> <<8192, 74>>) @@ (269025113 :> <<8192, 75>>) @@ (269025114 :> <<8192, 76>>)
  @@
     (269025115 :> <<8192, 77>>) @@ (269025116 :> <<8192, 78>>) @@ (269025117 :> <<8192, 79>>) @@ (269025118 :> <<8192, 80>>)
  @@
     (269025119 :> <<8192, 81>>) @@ (269025120 :> <<8192, 82>>) @@ (269025121 :> <<8192, 83>>) @@ (269025122 :> <<8192, 84>>)
  @@
     (269025123 :> <<8192, 85>>) @@ (269025125 :> <<8192, 86>>) @@ (269025126 :> <<8192, 87>>) @@ (269025127 :> <<8192, 88>>)
  @@
     (269025128 :> <<8192, 153>>) @@ (269025129 :> <<8192, 89>>) @@ (269025130 :> <<8192, 90>>) @@ (269025131 :> <<8192, 154>>)
  @@
     (269025132 :> <<8192, 91>>) @@ (269025133 :> <<8192, 92>>) @@ (269025134 :> <<8192, 93>>) @@ (269025138 :> <<8192, 95>>)
  @@
     (269025139 :> <<8192, 96>>) @@ (269025140 :> <<8192, 97>>) @@ (269025141 :> <<8192, 98>>) @@ (269025142 :> <<8192, 99>>)
  @@
     (269025143 :> <<8192, 100>>) @@ (269025147 :> <<8192, 101>>) @@ (269025148 :> <<8192, 102>>) @@ (269025149 :> <<8192, 103>>)
  @@
     (269025150 :> <<8192, 104>>) @@ (269025151 :> <<8192, 105>>) @@ (269025152 :> <<8192, 106>>) @@ (269025153 :> <<8192, 107>>)
  @@
     (269025154 :> <<8192, 108>>) @@ (269025159 :> <<8192, 109>>) @@ (269025161 :> <<8192, 110>>) @@ (269025162 :> <<8192, 111>>)
  @@
     (269025163 :> <<8192, 112>>) @@ (269025164 :> <<8192, 113>>) @@ (269025165 :> <<8192, 114>>) @@ (269025166 :> <<8192, 115>>)
  @@
     (269025167 :> <<8192, 116>>) @@ (269025168 :> <<8192, 117>>) @@ (269025169 :> <<8192, 118>>) @@ (269025170 :> <<8192, 119>>)
  @@
     (269025171 :> <<8192, 120>>) @@ (269025172 :> <<8192, 121>>) @@ (269025173 :> <<8192, 122>>) @@ (269025174 :> <<8192, 123>>)
  @@
     (269025175 :> <<8192, 124>>) @@ (269025176 :> <<8192, 125>>) @@ (269025177 :> <<8192, 126>>) @@ (269025178 :> <<8192, 127>>)
  @@
     (269025179 :> <<8192, 128>>) @@ (269025183 :> <<8192, 129>>) @@ (269025184 :> <<8192, 159>>) @@ (269025185 :> <<8192, 131>>)
  @@
     (269025186 :> <<8192, 132>>) @@ (269025187 :> <<8192, 142>>) @@ (269025188 :> <<8192, 143>>) @@ (269025189 :> <<8192, 144>>)
  @@
     (269025190 :> <<8192, 145>>) @@ (269025191 :> <<8192, 134>>) @@ (269025192 :> <<8192, 130>>) @@ (269025193 :> <<8192, 138>>)
  @@
     (269025200 :> <<8192, 139>>) @@ (269025201 :> <<8192, 140>>) @@ (269025202 :> <<8192, 141>>)

(***************************************************************************)
(* Protocol constants used by window.rs and keyboard.rs.                   *)
(***************************************************************************)
KEY_PRESS == 2
KEY_RELEASE == 3
BUTTON_PRESS == 4
BUTTON_RELEASE == 5
MOTION_NOTIFY == 6
ENTER_NOTIFY == 7
LEAVE_NOTIFY == 8
CLIENT_MESSAGE == 33

\* the exposure event the window subscribes to
EXPOSE == 12

\* xcb::xkb event sub-types
NEW_KEYBOARD_NOTIFY == 0
MAP_NOTIFY == 1
STATE_NOTIFY == 2
\* xkb::KEY_F1 and xkb::KEY_F24
KEY_F1 == 65470
KEY_F24 == 65493

\* window.rs iterable_key_enum! Atom: the fixed ordered list of atom names
Atom ==
  << "UTF8_STRING", "WM_PROTOCOLS", "WM_DELETE_WINDOW", "WM_TRANSIENT_FOR",
     "WM_CHANGE_STATE", "WM_STATE", "_NET_WM_STATE", "_NET_WM_STATE_MODAL",
     "_NET_WM_STATE_STICKY", "_NET_WM_STATE_MAXIMIZED_VERT",
     "_NET_WM_STATE_MAXIMIZED_HORZ", "_NET_WM_STATE_SHADED",
     "_NET_WM_STATE_SKIP_TASKBAR", "_NET_WM_STATE_SKIP_PAGER",
     "_NET_WM_STATE_HIDDEN", "_NET_WM_STATE_FULLSCREEN", "_NET_WM_STATE_ABOVE",
     "_NET_WM_STATE_BELOW", "_NET_WM_STATE_DEMANDS_ATTENTION",
     "_NET_WM_STATE_FOCUSED", "_NET_WM_NAME" >>

Atom_num_variants == Len(Atom)

AtomNames == {Atom[i] : i \in 1..Atom_num_variants}

(***************************************************************************)
(* The environment: the X server and the keymap of the bound device.       *)
(***************************************************************************)
\* the handle the server holds for the i-th atom name (0 is ATOM_NONE)
ServerAtomBase == 300

ServerAtom(i) == ServerAtomBase + i

\* names the server may not know when asked with only_if_exists
MissingChoices == {{}, {"WM_DELETE_WINDOW"}}

\* the first event code the server assigns to the keymap extension
KbdFirstEvents == {85}

\* identifiers of the core keyboard device, and of devices in notifications
CoreDeviceIds == {3}

NotifyDeviceIds == {3, 4}

ZeroState ==
  [base_mods |-> 0, latched_mods |-> 0, locked_mods |-> 0,
   base_group |-> 0, latched_group |-> 0, locked_group |-> 0]

\* the component values a state notification may carry
StatePayloads ==
  { ZeroState,
    [base_mods |-> 1, latched_mods |-> 0, locked_mods |-> 0,
     base_group |-> 0, latched_group |-> 0, locked_group |-> 0],
    [base_mods |-> 4, latched_mods |-> 1, locked_mods |-> 2,
     base_group |-> 1, latched_group |-> 1, locked_group |-> 1] }

\* scan codes of the keys the environment presses: LeftCtrl, A, LeftShift,
\* RightCtrl, and a key the table leaves Unknown (comment "Super_L")
ScanCodes == {37, 38, 50, 105, 206}

LeftCtrlCode == CHOOSE c \in ScanCodes : keycode_table[c + 1] = "LeftCtrl"

Positions == {<<0, 0>>, <<7, -2>>}

\* pointer 'state' masks: nothing held, and Button1 | Button3 | Shift | Control
PointerStates == {0, 1285}

ButtonDetails == {1, 2, 3, 4}

MotionDetails == {0, 1}

SentBits == {0, 128}

OtherResponseTypes == {0, 12, 22}

EffectiveMods(st) == BitOr8(BitOr8(st.base_mods, st.latched_mods), st.locked_mods)

EffectiveGroup(st) == (st.base_group + st.latched_group + st.locked_group) % 2

UpperLevel(st) == Bit(EffectiveMods(st), 0) # Bit(EffectiveMods(st), 1)

\* xkb::State::key_get_one_sym for the keymap of the bound device
key_get_one_sym(st, xcode) ==
  CASE xcode = 38 ->
         IF EffectiveGroup(st) = 1
           THEN (IF UpperLevel(st) THEN 81 ELSE 113)
           ELSE (IF UpperLevel(st) THEN 65 ELSE 97)
    [] xcode = 37 -> 65507
    [] xcode = 105 -> 65508
    [] xcode = 50 -> 65505
    [] xcode = 62 -> 65506
    [] xcode = 64 -> 65513
    [] xcode = 108 -> 65514
    [] xcode = 206 -> 65515
    [] xcode = 67 -> KEY_F1
    [] OTHER -> 0

\* xkb::State::key_get_utf8 for the keymap of the bound device
key_get_utf8(st, xcode) ==
  IF xcode = 38
    THEN IF EffectiveGroup(st) = 1
           THEN (IF UpperLevel(st) THEN "Q" ELSE "q")
           ELSE (IF UpperLevel(st) THEN "A" ELSE "a")
    ELSE ""

(***************************************************************************)
(* Raw events and semantic events.                                         *)
(***************************************************************************)
BlankRaw ==
  [response_type |-> 0, detail |-> 0, event_x |-> 0, event_y |-> 0,
   state |-> 0, type |-> 0, format |-> 0, data0 |-> 0,
   xkb_type |-> 0, device_id |-> 0, payload |-> ZeroState]

KeyRaw(rt, xcode) == [BlankRaw EXCEPT !.response_type = rt, !.detail = xcode]

PointerRaw(rt, detail, pos, st) ==
  [BlankRaw EXCEPT !.response_type = rt, !.detail = detail,
                   !.event_x = pos[1], !.event_y = pos[2], !.state = st]

ClientRaw(rt, type, format, data0) ==
  [BlankRaw EXCEPT !.response_type = rt, !.type = type,
                   !.format = format, !.data0 = data0]

XkbRaw(rt, xkb_type, dev, payload) ==
  [BlankRaw EXCEPT !.response_type = rt, !.xkb_type = xkb_type,
                   !.device_id = dev, !.payload = payload]

OtherRaw(rt) == [BlankRaw EXCEPT !.response_type = rt]

\* event.rs enum Event; None is the empty Option
NoEvent ==
  [kind |-> "None", x |-> 0, y |-> 0, buttons |-> 0, mods |-> 0,
   sym |-> <<0, 0>>, code |-> "None", text |-> ""]

PointEvent(kind, x, y) == [NoEvent EXCEPT !.kind = kind, !.x = x, !.y = y]

MouseEvent(kind, t) ==
  [NoEvent EXCEPT !.kind = kind, !.x = t.pos[1], !.y = t.pos[2],
                  !.buttons = t.but, !.mods = t.mods]

KeyEvent(kind, sym, code, text) ==
  [NoEvent EXCEPT !.kind = kind, !.sym = sym, !.code = code, !.text = text]

CloseEvent == [NoEvent EXCEPT !.kind = "Close"]

(***************************************************************************)
(* keyboard.rs: Keyboard.                                                  *)
(***************************************************************************)
\* variant: the scan codes the table leaves Unknown are taken for LeftSuper
get_keycode_super_mapped(xcode) ==
  IF xcode >= Len(keycode_table) THEN "Unknown"
  ELSE IF keycode_table[xcode + 1] = "Unknown" THEN "LeftSuper"
  ELSE keycode_table[xcode + 1]

\* variant: a scan code beyond the table wraps around instead of being refused
get_keycode_wrapping(xcode) == keycode_table[(xcode % Len(keycode_table)) + 1]

\* Keyboard::get_keycode
get_keycode(xcode) ==
  IF xcode >= Len(keycode_table) THEN "Unknown" ELSE keycode_table[xcode + 1]

\* the outcomes of mem::transmute::<u32, Sym>: the variant of that value,
\* or, for a value no variant has, whatever the build makes of it
transmute(hi, lo) ==
  IF <<hi, lo>> \in SymVariants THEN {<<hi, lo>>}
  ELSE {<<hi, lo>>, Sym_Unknown}

\* variant: the lowercase bit is not cleared
get_keysym_no_fold(xsym) ==
  IF xsym >= 32 /\ xsym < 128
    THEN {<<0, xsym>>}
  ELSE IF xsym >= KEY_F1 /\ xsym <= KEY_F24
    THEN transmute(Sym_F1[1], Sym_F1[2] + (xsym - KEY_F1))
  ELSE IF xsym \in DOMAIN keysym_map
    THEN {keysym_map[xsym]}
  ELSE {Sym_Unknown}

\* Keyboard::get_keysym: the set of symbols the call can return
get_keysym(xsym) ==
  IF xsym >= 32 /\ xsym < 128
    THEN LET x2 == IF xsym >= 97 /\ xsym <= 122
                     THEN BitClear(xsym, SYM_LATIN1_SMALL_MASK)
                     ELSE xsym
         IN  transmute(x2 \div 65536, x2 % 65536)
  ELSE IF xsym >= KEY_F1 /\ xsym <= KEY_F24
    THEN transmute(Sym_F1[1], Sym_F1[2] + (xsym - KEY_F1))
  ELSE IF xsym \in DOMAIN keysym_map
    THEN {keysym_map[xsym]}
  ELSE {Sym_Unknown}

\* Keyboard::make_key_event, the match on the key code
mod_mask_of(code) ==
  CASE code = "LeftCtrl" -> MODS_LEFT_CTRL
    [] code = "LeftShift" -> MODS_LEFT_SHIFT
    [] code = "LeftAlt" -> MODS_LEFT_ALT
    [] code = "LeftSuper" -> MODS_LEFT_SUPER
    [] code = "RightCtrl" -> MODS_RIGHT_CTRL
    [] code = "RightShift" -> MODS_RIGHT_SHIFT
    [] code = "RightAlt" -> MODS_RIGHT_ALT
    [] code = "RightSuper" -> MODS_RIGHT_SUPER
    [] OTHER -> 0

\* variant: a key that is no modifier clears the cache
update_mods_reset(mods, xcode, pressed) ==
  LET mod_mask == mod_mask_of(get_keycode(xcode))
  IN  IF mod_mask # 0
        THEN IF pressed THEN BitOr8(mods, mod_mask)
                        ELSE BitAnd8(mods, BitNot8(mod_mask))
        ELSE 0

\* Keyboard::make_key_event, the update of the running modifier cache
update_mods(mods, xcode, pressed) ==
  LET mod_mask == mod_mask_of(get_keycode(xcode))
  IN  IF mod_mask # 0
        THEN IF pressed THEN BitOr8(mods, mod_mask)
                        ELSE BitAnd8(mods, BitNot8(mod_mask))
        ELSE mods

\* variant: the text is resolved on release as well
key_text_on_release(st, xcode, press) == key_get_utf8(st, xcode)

\* the text a key event carries
key_text(st, xcode, press) == IF press THEN key_get_utf8(st, xcode) ELSE ""

\* Keyboard::make_key_event: the outcomes [event, mods]
make_key_event(st, mods, xcb_ev, press) ==
  LET xcode == xcb_ev.detail
      xsym == key_get_one_sym(st, xcode)
      pressed == BitAnd8(xcb_ev.response_type, BitNot8(128)) = KEY_PRESS
      code == get_keycode(xcode)
  IN  { [event |-> KeyEvent(IF press THEN "KeyPress" ELSE "KeyRelease",
                            sym, code, key_text(st, xcode, press)),
         mods |-> update_mods(mods, xcode, pressed)] : sym \in get_keysym(xsym) }

\* Keyboard::get_mods
get_mods(mods) == Mods_new(mods)

\* variant: the layout groups of the notification are not applied
update_state_mods_only(st, ev) ==
  [st EXCEPT !.base_mods = ev.payload.base_mods,
             !.latched_mods = ev.payload.latched_mods,
             !.locked_mods = ev.payload.locked_mods]

\* Keyboard::update_state
update_state(st, ev) ==
  [base_mods |-> ev.payload.base_mods,
   latched_mods |-> ev.payload.latched_mods,
   locked_mods |-> ev.payload.locked_mods,
   base_group |-> ev.payload.base_group,
   latched_group |-> ev.payload.latched_group,
   locked_group |-> ev.payload.locked_group]

(***************************************************************************)
(* window.rs: Window.                                                      *)
(***************************************************************************)
VARIABLES
  wstate,       \* "start", "ready" (Window::new returned a Window), "panicked"
  setupFailure, \* the first setup failure Window::new met, or "none"
  winExists,    \* the server accepted the window-creation request
  atoms,        \* Window.atoms: atom name -> handle
  kbd_ev,       \* Window.kbd_ev: first event code of the keymap extension
  device_id,    \* Keyboard.device_id
  kbd_state,    \* Keyboard.state: the modifier-resolution state
  kbd_mods,     \* Keyboard.mods: the running modifier cache (u8)
  connAlive,    \* the transport still delivers raw events
  pc,           \* position of the caller of wait_event
  result,       \* what the last wait_event call returned
  callFailed,   \* the transport failed during the current / last call
  lastRaw,      \* the raw event read last
  held,         \* scan codes of the keys physically held
  ctrlPre,      \* the cache before the left-ctrl press, while that press
                \* is the latest key event; -1 otherwise
  title,        \* Window.title
  pending,      \* WM_NAME requests buffered on the connection, not yet sent
  srv_name,     \* the WM_NAME property the server holds for the window
  lastCall,     \* the last get_title / set_title call and what it met
  fn,           \* the last call of a pure function: [op, in, out]
  cookies,      \* Window::new: the atom names interned so far, in request order
  nreplies,     \* Window::new: the number of intern replies collected
  borrow,       \* the borrow flag of Keyboard.state: 0 free, 1 shared, -1 exclusive
  symState,     \* the state the symbol of the key event in hand was resolved against
  nraw,         \* the number of raw events read from the transport
  produced,     \* the raw events (by number) translate_event made an event of
  delivered,    \* the raw events (by number) whose event wait_event returned
  depth,        \* the number of wait_event calls nested in the outermost one
  resultOf      \* the raw event (by number) the value in result was made of, or 0

titlevars == << title, pending, srv_name, lastCall >>

stepvars ==
  << cookies, nreplies, borrow, symState, nraw, produced, delivered, depth,
     resultOf >>

vars ==
  << wstate, setupFailure, winExists, atoms, kbd_ev, device_id, kbd_state,
     kbd_mods, connAlive, pc, result, callFailed, lastRaw, held, ctrlPre,
     title, pending, srv_name, lastCall, fn, cookies, nreplies, borrow,
     symState, nraw, produced, delivered, depth, resultOf >>

\* variant: the detail field is taken as a zero-based button index
button_of_zero_based(xcb_ev) ==
  CASE xcb_ev.detail = 0 -> Buttons_left
    [] xcb_ev.detail = 1 -> Buttons_middle
    [] xcb_ev.detail = 2 -> Buttons_right
    [] OTHER -> Buttons_none

\* Window::make_mouse_event: the button decoded from the detail field
button_of(xcb_ev) ==
  CASE xcb_ev.detail = 1 -> Buttons_left
    [] xcb_ev.detail = 2 -> Buttons_middle
    [] xcb_ev.detail = 3 -> Buttons_right
    [] OTHER -> Buttons_none

\* variant: the modifiers are read from the state field of the raw event
mouse_mods_from_event(xcb_ev, mods) == Mods_new(xcb_ev.state % 256)

\* Window::make_mouse_event: the modifiers attached to a pointer event
mouse_mods(xcb_ev, mods) == get_mods(mods)

\* Window::make_mouse_event
make_mouse_event(xcb_ev, mods) ==
  [pos |-> <<xcb_ev.event_x, xcb_ev.event_y>>,
   but |-> button_of(xcb_ev),
   mods |-> mouse_mods(xcb_ev, mods)]

\* Window::make_enterleave_point
make_enterleave_point(xcb_ev) == <<xcb_ev.event_x, xcb_ev.event_y>>

\* variant: the type of the message is not looked at
is_close_message_any_type(cm_ev, atms) ==
  /\ cm_ev.format = 32
  /\ cm_ev.data0 = atms["WM_DELETE_WINDOW"]

\* variant: the first data word is compared with the WM_PROTOCOLS atom
is_close_message_wrong_atom(cm_ev, atms) ==
  /\ cm_ev.type = atms["WM_PROTOCOLS"]
  /\ cm_ev.format = 32
  /\ cm_ev.data0 = atms["WM_PROTOCOLS"]

\* Window::translate_event, the test of the CLIENT_MESSAGE arm
is_close_message(cm_ev, atms) ==
  /\ cm_ev.type = atms["WM_PROTOCOLS"]
  /\ cm_ev.format = 32
  /\ cm_ev.data0 = atms["WM_DELETE_WINDOW"]

\* variant: an exposure is surfaced as the Expose event
translate_other_expose(r, xcb_ev, kev, dev, st) ==
  IF r = kev
    THEN [event |-> NoEvent, again |-> TRUE,
          state |-> IF xcb_ev.device_id = dev % 256 /\ xcb_ev.xkb_type = STATE_NOTIFY
                      THEN update_state(st, xcb_ev) ELSE st]
    ELSE [event |-> IF r = EXPOSE THEN [NoEvent EXCEPT !.kind = "Expose"] ELSE NoEvent,
          again |-> FALSE, state |-> st]

\* variant: every notification of the bound device is taken for a state change
translate_other_any_type(r, xcb_ev, kev, dev, st) ==
  IF r = kev
    THEN [event |-> NoEvent, again |-> TRUE,
          state |-> IF xcb_ev.device_id = dev % 256
                      THEN update_state(st, xcb_ev) ELSE st]
    ELSE [event |-> NoEvent, again |-> FALSE, state |-> st]

\* variant: the device of the notification is not compared
translate_other_any_device(r, xcb_ev, kev, dev, st) ==
  IF r = kev
    THEN [event |-> NoEvent, again |-> TRUE,
          state |-> IF xcb_ev.xkb_type = STATE_NOTIFY
                      THEN update_state(st, xcb_ev) ELSE st]
    ELSE [event |-> NoEvent, again |-> FALSE, state |-> st]

\* Window::translate_event, the default arm: the keymap-extension branch
\* reads the next raw event (again), every other event yields None
translate_other(r, xcb_ev, kev, dev, st) ==
  IF r = kev
    THEN [event |-> NoEvent, again |-> TRUE,
          state |-> IF xcb_ev.device_id = dev % 256 /\ xcb_ev.xkb_type = STATE_NOTIFY
                      THEN update_state(st, xcb_ev) ELSE st]
    ELSE [event |-> NoEvent, again |-> FALSE, state |-> st]

\* Window::translate_event: the outcomes [event, mods, state, again] of one
\* raw event; again = the call goes on to read the next raw event
translate_event(xcb_ev, atms, kev, dev, st, mods) ==
  LET r == BitAnd8(xcb_ev.response_type, BitNot8(128))
      same(e) == {[event |-> e, mods |-> mods, state |-> st, again |-> FALSE]}
  IN  CASE r = KEY_PRESS ->
             { [event |-> o.event, mods |-> o.mods, state |-> st, again |-> FALSE] :
                 o \in make_key_event(st, mods, xcb_ev, TRUE) }
        [] r = KEY_RELEASE ->
             { [event |-> o.event, mods |-> o.mods, state |-> st, again |-> FALSE] :
                 o \in make_key_event(st, mods, xcb_ev, FALSE) }
        [] r = BUTTON_PRESS ->
             same(MouseEvent("MousePress", make_mouse_event(xcb_ev, mods)))
        [] r = BUTTON_RELEASE ->
             same(MouseEvent("MouseRelease", make_mouse_event(xcb_ev, mods)))
        [] r = ENTER_NOTIFY ->
             same(PointEvent("Enter", make_enterleave_point(xcb_ev)[1],
                                      make_enterleave_point(xcb_ev)[2]))
        [] r = LEAVE_NOTIFY ->
             same(PointEvent("Leave", make_enterleave_point(xcb_ev)[1],
                                      make_enterleave_point(xcb_ev)[2]))
        [] r = MOTION_NOTIFY ->
             same(MouseEvent("MouseMove", make_mouse_event(xcb_ev, mods)))
        [] r = CLIENT_MESSAGE ->
             same(IF is_close_message(xcb_ev, atms) THEN CloseEvent ELSE NoEvent)
        [] OTHER ->
             LET o == translate_other(r, xcb_ev, kev, dev, st)
             IN  {[event |-> o.event, mods |-> mods, state |-> o.state,
                   again |-> o.again]}

(***************************************************************************)
(* Window::new and Keyboard::new.                                          *)
(***************************************************************************)
\* what the server and the connection answer during construction
SetupInputs ==
  [connect : BOOLEAN,
   atom_err : {"none"} \cup AtomNames,
   missing : MissingChoices,
   ext_data : BOOLEAN,
   use_ext : {"supported", "unsupported", "error"},
   select_ok : BOOLEAN,
   create_ok : BOOLEAN,
   first_ev : KbdFirstEvents,
   dev : CoreDeviceIds,
   state : StatePayloads]

\* Window::new, the replies of intern_atom(conn, true, name): the handle, or
\* ATOM_NONE for a name the server does not know
atom_replies(inp) ==
  [n \in AtomNames |->
     IF n \in inp.missing THEN 0
     ELSE ServerAtom(CHOOSE i \in 1..Atom_num_variants : Atom[i] = n)]

\* Keyboard::new: the panic it ends in, or "none"
keyboard_new_panic(inp) ==
  IF ~inp.ext_data THEN "xkb_absent"
  ELSE IF inp.use_ext = "error" THEN "xkb_reply"
  ELSE IF inp.use_ext = "unsupported" THEN "xkb_version"
  ELSE IF ~inp.select_ok THEN "select_events"
  ELSE "none"

\* Window::new: the panic it ends in, or "none"
window_new_panic(inp) ==
  IF ~inp.connect THEN "connect"
  ELSE IF inp.atom_err # "none" THEN "atom_error"
  ELSE keyboard_new_panic(inp)

\* the first setup failure of a construction, detected by the code or not
first_failure(inp) ==
  IF ~inp.connect THEN "connect"
  ELSE IF inp.atom_err # "none" THEN "atom_error"
  ELSE IF inp.missing # {} THEN "atom_missing"
  ELSE IF keyboard_new_panic(inp) # "none" THEN keyboard_new_panic(inp)
  ELSE IF ~inp.create_ok THEN "create_window"
  ELSE "none"

\* the title the example program passes to Window::new
ExampleTitle == "Example"

\* titles a caller passes to Window::new and Window::set_title
Titles == {"", "Example", "Other"}

\* the server holds no WM_NAME property for the window
Unset == "<unset>"

NoCall == [op |-> "none", arg |-> "", old |-> "", npending |-> 0, ret |-> ""]

NoFn == [op |-> "none", in |-> << >>, out |-> << >>]

Init ==
  /\ wstate = "start"
  /\ setupFailure = "none"
  /\ winExists = FALSE
  /\ atoms = [n \in AtomNames |-> 0]
  /\ kbd_ev = 0
  /\ device_id = 0
  /\ kbd_state = ZeroState
  /\ kbd_mods = 0
  /\ connAlive = FALSE
  /\ pc = "idle"
  /\ result = NoEvent
  /\ callFailed = FALSE
  /\ lastRaw = BlankRaw
  /\ held = {}
  /\ ctrlPre = -1
  /\ title = ""
  /\ pending = << >>
  /\ srv_name = Unset
  /\ lastCall = NoCall
  /\ fn = NoFn
  /\ cookies = << >>
  /\ nreplies = 0
  /\ borrow = 0
  /\ symState = ZeroState
  /\ nraw = 0
  /\ produced = << >>
  /\ delivered = << >>
  /\ depth = 0
  /\ resultOf = 0

\* Window::new(width, height, t): the title property is set when t is not
\* empty, and the final flush sends every buffered request
NewWith(t) ==
  /\ wstate = "start"
  /\ \E inp \in SetupInputs :
       /\ setupFailure' = first_failure(inp)
       /\ IF window_new_panic(inp) # "none"
            THEN /\ wstate' = "panicked"
                 /\ UNCHANGED << winExists, atoms, kbd_ev, device_id, kbd_state,
                                 connAlive, title, srv_name >>
            ELSE /\ wstate' = "ready"
                 /\ winExists' = inp.create_ok
                 /\ atoms' = atom_replies(inp)
                 /\ kbd_ev' = inp.first_ev
                 /\ device_id' = inp.dev
                 /\ kbd_state' = inp.state
                 /\ connAlive' = TRUE
                 /\ title' = t
                 /\ srv_name' = IF inp.create_ok /\ t # "" THEN t ELSE srv_name
  /\ kbd_mods' = 0
  /\ pending' = << >>
  /\ UNCHANGED << pc, result, callFailed, lastRaw, held, ctrlPre, lastCall, fn,
                  stepvars >>

\* Window::new, called as the example program calls it
New == NewWith(ExampleTitle)

\* Window::wait_event is called
WaitEventCall ==
  /\ wstate = "ready"
  /\ pc # "waiting"
  /\ pc' = "waiting"
  /\ result' = NoEvent
  /\ callFailed' = FALSE
  /\ lastRaw' = BlankRaw
  /\ UNCHANGED << wstate, setupFailure, winExists, atoms, kbd_ev, device_id,
                  kbd_state, kbd_mods, connAlive, held, ctrlPre, titlevars, fn, stepvars >>

\* Window::wait_event: conn.wait_for_event() returned the raw event xcb_ev,
\* and translate_event handles it
Deliver(xcb_ev) ==
  /\ wstate = "ready"
  /\ pc = "waiting"
  /\ connAlive
  /\ \E o \in translate_event(xcb_ev, atoms, kbd_ev, device_id, kbd_state, kbd_mods) :
       /\ kbd_mods' = o.mods
       /\ kbd_state' = o.state
       /\ pc' = IF o.again THEN "waiting" ELSE "returned"
       /\ result' = o.event
  /\ lastRaw' = xcb_ev
  /\ UNCHANGED << wstate, setupFailure, winExists, atoms, kbd_ev, device_id,
                  connAlive, callFailed, titlevars, fn, stepvars >>

DeliverKeyPress ==
  \E xcode \in ScanCodes \ held, sent \in SentBits :
    /\ winExists
    /\ Deliver(KeyRaw(KEY_PRESS + sent, xcode))
    /\ held' = held \cup {xcode}
    /\ ctrlPre' = IF xcode = LeftCtrlCode THEN kbd_mods ELSE -1

DeliverKeyRelease ==
  \E xcode \in held, sent \in SentBits :
    /\ winExists
    /\ Deliver(KeyRaw(KEY_RELEASE + sent, xcode))
    /\ held' = held \ {xcode}
    /\ ctrlPre' = -1

DeliverButton ==
  \E rt \in {BUTTON_PRESS, BUTTON_RELEASE}, d \in ButtonDetails,
     pos \in Positions, st \in PointerStates :
    /\ winExists
    /\ Deliver(PointerRaw(rt, d, pos, st))
    /\ UNCHANGED << held, ctrlPre >>

DeliverMotion ==
  \E d \in MotionDetails, pos \in Positions, st \in PointerStates :
    /\ winExists
    /\ Deliver(PointerRaw(MOTION_NOTIFY, d, pos, st))
    /\ UNCHANGED << held, ctrlPre >>

DeliverEnterLeave ==
  \E rt \in {ENTER_NOTIFY, LEAVE_NOTIFY}, pos \in Positions :
    /\ winExists
    /\ Deliver(PointerRaw(rt, 0, pos, 0))
    /\ UNCHANGED << held, ctrlPre >>

DeliverClientMessage ==
  \E sent \in SentBits,
     type \in {ServerAtom(2), ServerAtom(5)},
     format \in {8, 32},
     data0 \in {ServerAtom(3), ServerAtom(4)} :
    /\ winExists
    /\ Deliver(ClientRaw(CLIENT_MESSAGE + sent, type, format, data0))
    /\ UNCHANGED << held, ctrlPre >>

DeliverXkb ==
  \E t \in {NEW_KEYBOARD_NOTIFY, MAP_NOTIFY, STATE_NOTIFY},
     dev \in NotifyDeviceIds, p \in StatePayloads :
    /\ Deliver(XkbRaw(kbd_ev, t, dev, p))
    /\ UNCHANGED << held, ctrlPre >>

DeliverOther ==
  \E rt \in OtherResponseTypes :
    /\ Deliver(OtherRaw(rt))
    /\ UNCHANGED << held, ctrlPre >>

\* Window::wait_event: conn.wait_for_event() returned None
TransportFail ==
  /\ wstate = "ready"
  /\ pc = "waiting"
  /\ connAlive' = FALSE
  /\ callFailed' = TRUE
  /\ pc' = "returned"
  /\ result' = NoEvent
  /\ UNCHANGED << wstate, setupFailure, winExists, atoms, kbd_ev, device_id,
                  kbd_state, kbd_mods, lastRaw, held, ctrlPre, titlevars, fn, stepvars >>

Next ==
  \/ New
  \/ WaitEventCall
  \/ DeliverKeyPress
  \/ DeliverKeyRelease
  \/ DeliverButton
  \/ DeliverMotion
  \/ DeliverEnterLeave
  \/ DeliverClientMessage
  \/ DeliverXkb
  \/ DeliverOther
  \/ TransportFail

Spec == Init /\ [][Next]_vars

(***************************************************************************)
(* The pure functions, applied to inputs drawn from bounded sets.          *)
(***************************************************************************)
\* the largest scan code handed to get_keycode
MaxXcode == 300

Bytes == 0..255

\* raw key symbols handed to get_keysym: the Latin-1 block and its
\* surroundings, the function keys and their surroundings, every key of the
\* sparse table, and vendor values the table does not hold
KeysymInputs ==
  (0..300) \cup ((KEY_F1 - 2)..(KEY_F24 + 2)) \cup DOMAIN keysym_map
    \cup {2017, 65535, 268828527}

\* operands of the binary operators on Mods
ModsOperands == {0, 1, 33, 66, 72, 95, 96, 127}

FnCall(op, in, out) == [op |-> op, in |-> in, out |-> out]

mainvars ==
  << wstate, setupFailure, winExists, atoms, kbd_ev, device_id, kbd_state,
     kbd_mods, connAlive, pc, result, callFailed, lastRaw, held, ctrlPre >>

CallGetKeysym ==
  /\ fn = NoFn
  /\ \E xsym \in KeysymInputs : \E k \in get_keysym(xsym) :
       fn' = FnCall("get_keysym", <<xsym>>, k)
  /\ UNCHANGED << mainvars, titlevars, stepvars >>

CallGetKeycode ==
  /\ fn = NoFn
  /\ \E xcode \in 0..MaxXcode :
       fn' = FnCall("get_keycode", <<xcode>>, get_keycode(xcode))
  /\ UNCHANGED << mainvars, titlevars, stepvars >>

CallModsNew ==
  /\ fn = NoFn
  /\ \E x \in Bytes : fn' = FnCall("Mods_new", <<x>>, Mods_new(x))
  /\ UNCHANGED << mainvars, titlevars, stepvars >>

CallModsOp ==
  /\ fn = NoFn
  /\ \E x \in Bytes, y \in ModsOperands :
       \/ fn' = FnCall("Mods_bitand", <<x, y>>, Mods_bitand(Mods_new(x), Mods_new(y)))
       \/ fn' = FnCall("Mods_bitor", <<x, y>>, Mods_bitor(Mods_new(x), Mods_new(y)))
       \/ fn' = FnCall("Mods_bitxor", <<x, y>>, Mods_bitxor(Mods_new(x), Mods_new(y)))
  /\ UNCHANGED << mainvars, titlevars, stepvars >>

CallButtonsNew ==
  /\ fn = NoFn
  /\ \E x \in Bytes : fn' = FnCall("Buttons_new", <<x>>, Buttons_new(x))
  /\ UNCHANGED << mainvars, titlevars, stepvars >>

CallButtonsOp ==
  /\ fn = NoFn
  /\ \E x \in Bytes, y \in 0..MASK :
       \/ fn' = FnCall("Buttons_bitand", <<x, y>>,
                       Buttons_bitand(Buttons_new(x), Buttons_new(y)))
       \/ fn' = FnCall("Buttons_bitor", <<x, y>>,
                       Buttons_bitor(Buttons_new(x), Buttons_new(y)))
       \/ fn' = FnCall("Buttons_bitxor", <<x, y>>,
                       Buttons_bitxor(Buttons_new(x), Buttons_new(y)))
  /\ UNCHANGED << mainvars, titlevars, stepvars >>

CallButtonsHas ==
  /\ fn = NoFn
  /\ \E m \in 0..MASK, f \in Bytes :
       fn' = FnCall("Buttons_has", <<m, f>>,
                    [has_all |-> Buttons_has_all(Buttons_new(m), f),
                     has_any |-> Buttons_has_any(Buttons_new(m), f),
                     has_none |-> Buttons_has_none(Buttons_new(m), f),
                     is_none |-> Buttons_is_none(Buttons_new(m))])
  /\ UNCHANGED << mainvars, titlevars, stepvars >>

NextPure ==
  \/ CallGetKeysym
  \/ CallGetKeycode
  \/ CallModsNew
  \/ CallModsOp
  \/ CallButtonsNew
  \/ CallButtonsOp
  \/ CallButtonsHas

SpecPure == Init /\ [][NextPure]_vars

\* ---------------------------------------------------------------------------
\* The title of the window

\* set_title calls made while the connection is never flushed
MaxPending == 2

\* Window::new with any title
NewTitled == \E t \in Titles : NewWith(t)

\* Window::set_title(t): a new value is stored and a change of the WM_NAME
\* property is written to the output buffer of the connection; nothing sends
\* the buffer
SetTitle(t) ==
  /\ wstate = "ready"
  /\ Len(pending) < MaxPending
  /\ IF t # title
       THEN /\ title' = t
            /\ pending' = Append(pending, t)
       ELSE UNCHANGED << title, pending >>
  /\ lastCall' = [op |-> "set_title", arg |-> t, old |-> title,
                  npending |-> Len(pending), ret |-> ""]
  /\ UNCHANGED << mainvars, srv_name, fn, stepvars >>

\* Window::get_title
GetTitle ==
  /\ wstate = "ready"
  /\ lastCall' = [op |-> "get_title", arg |-> "", old |-> title,
                  npending |-> Len(pending), ret |-> title]
  /\ UNCHANGED << mainvars, title, pending, srv_name, fn, stepvars >>

NextTitle ==
  \/ NewTitled
  \/ \E t \in Titles : SetTitle(t)
  \/ GetTitle

SpecTitle == Init /\ [][NextTitle]_vars

\* ---------------------------------------------------------------------------
\* Window::new and Window::wait_event, statement by statement

\* raw events read from the transport in one behaviour
MaxRaw == 3

\* scan codes of the keys pressed here: LeftCtrl and A
StepScanCodes == {37, 38}

windowvars == << wstate, setupFailure, winExists, atoms, kbd_ev, device_id >>

internvars == << cookies, nreplies >>

\* variant: the requests are issued from the last name to the first
intern_name_reversed(i) == Atom[Atom_num_variants + 1 - i]

\* Window::new: the name of the i-th intern request
intern_name(i) == Atom[i]

\* the answer of the server to an intern request with only_if_exists
server_atom(name, missing) ==
  IF name \in missing THEN 0
  ELSE ServerAtom(CHOOSE i \in 1..Atom_num_variants : Atom[i] = name)

\* variant: a Ref is kept alive after the statement that took it
ref_drop_leaked(b) == b

\* the temporary Ref of a state.borrow() is dropped at the end of the statement
ref_drop(b) == b - 1

\* RefCell::borrow
ref_take(b) == b + 1

\* variant: the event of the nested call is thrown away
recursive_result_dropped(ev) == NoEvent

\* Window::translate_event, the keymap-extension branch: the value of the
\* nested wait_event call is the value of the branch
recursive_result(ev) == ev

\* Connection::connect_with_xlib_display fails
ConnectFail ==
  /\ wstate = "start"
  /\ cookies = << >>
  /\ wstate' = "panicked"
  /\ setupFailure' = "connect"
  /\ UNCHANGED << winExists, atoms, kbd_ev, device_id, kbd_state, kbd_mods,
                  connAlive, pc, result, callFailed, lastRaw, held, ctrlPre,
                  titlevars, fn, stepvars >>

\* Window::new, the first loop: one intern request per name, no reply awaited
InternRequest ==
  /\ wstate = "start"
  /\ Len(cookies) < Atom_num_variants
  /\ cookies' = Append(cookies, intern_name(Len(cookies) + 1))
  /\ UNCHANGED << windowvars, kbd_state, kbd_mods, connAlive, pc, result,
                  callFailed, lastRaw, held, ctrlPre, titlevars, fn, nreplies,
                  borrow, symState, nraw, produced, delivered, depth, resultOf >>

\* Window::new, the second loop: the reply of the i-th cookie is stored under
\* the i-th name; an Err reply panics
InternReply ==
  /\ wstate = "start"
  /\ Len(cookies) = Atom_num_variants
  /\ nreplies < Atom_num_variants
  /\ \E missing \in MissingChoices, err \in BOOLEAN :
       IF err
         THEN /\ wstate' = "panicked"
              /\ setupFailure' = "atom_error"
              /\ UNCHANGED << atoms, nreplies >>
         ELSE /\ atoms' = [atoms EXCEPT ![Atom[nreplies + 1]] =
                                    server_atom(cookies[nreplies + 1], missing)]
              /\ nreplies' = nreplies + 1
              /\ UNCHANGED << wstate, setupFailure >>
  /\ UNCHANGED << winExists, kbd_ev, device_id, kbd_state, kbd_mods, connAlive,
                  pc, result, callFailed, lastRaw, held, ctrlPre, titlevars, fn,
                  cookies, borrow, symState, nraw, produced, delivered, depth,
                  resultOf >>

\* Window::new after the atom table: Keyboard::new, the window, its
\* properties, the flush
FinishNew ==
  /\ wstate = "start"
  /\ nreplies = Atom_num_variants
  /\ \E inp \in SetupInputs :
       /\ inp.connect
       /\ inp.atom_err = "none"
       /\ atom_replies(inp) = atoms
       /\ setupFailure' = first_failure(inp)
       /\ IF keyboard_new_panic(inp) # "none"
            THEN /\ wstate' = "panicked"
                 /\ UNCHANGED << winExists, kbd_ev, device_id, kbd_state,
                                 connAlive, title, srv_name >>
            ELSE /\ wstate' = "ready"
                 /\ winExists' = inp.create_ok
                 /\ kbd_ev' = inp.first_ev
                 /\ device_id' = inp.dev
                 /\ kbd_state' = inp.state
                 /\ connAlive' = TRUE
                 /\ title' = ExampleTitle
                 /\ srv_name' = IF inp.create_ok THEN ExampleTitle ELSE srv_name
  /\ UNCHANGED << atoms, kbd_mods, pending, pc, result, callFailed, lastRaw,
                  held, ctrlPre, lastCall, fn, stepvars >>

\* Window::wait_event is called by the application
StepCall ==
  /\ wstate = "ready"
  /\ pc \in {"idle", "returned"}
  /\ pc' = "blocked"
  /\ result' = NoEvent
  /\ resultOf' = 0
  /\ callFailed' = FALSE
  /\ lastRaw' = BlankRaw
  /\ depth' = 0
  /\ UNCHANGED << windowvars, kbd_state, kbd_mods, connAlive, held, ctrlPre,
                  titlevars, fn, internvars, borrow, symState, nraw, produced,
                  delivered >>

\* conn.wait_for_event() returns the raw event xcb_ev
ReadRaw(xcb_ev) ==
  /\ wstate = "ready"
  /\ pc = "blocked"
  /\ connAlive
  /\ nraw < MaxRaw
  /\ lastRaw' = xcb_ev
  /\ nraw' = nraw + 1
  /\ pc' = "translate"
  /\ UNCHANGED << windowvars, kbd_state, kbd_mods, connAlive, result,
                  callFailed, titlevars, fn, internvars, borrow, symState,
                  produced, delivered, depth, resultOf >>

ReadKey ==
  \E xcode \in StepScanCodes :
    /\ winExists
    /\ ReadRaw(KeyRaw(IF xcode \in held THEN KEY_RELEASE ELSE KEY_PRESS, xcode))
    /\ held' = IF xcode \in held THEN held \ {xcode} ELSE held \cup {xcode}
    /\ UNCHANGED ctrlPre

ReadXkb ==
  \E t \in {MAP_NOTIFY, STATE_NOTIFY}, dev \in NotifyDeviceIds, p \in StatePayloads :
    /\ t = STATE_NOTIFY \/ p = ZeroState
    /\ ReadRaw(XkbRaw(kbd_ev, t, dev, p))
    /\ UNCHANGED << held, ctrlPre >>

ReadPlain ==
  \E xcb_ev \in {PointerRaw(BUTTON_PRESS, 1, <<0, 0>>, 0),
                 ClientRaw(CLIENT_MESSAGE, ServerAtom(2), 32, ServerAtom(3)),
                 OtherRaw(EXPOSE)} :
    /\ winExists
    /\ ReadRaw(xcb_ev)
    /\ UNCHANGED << held, ctrlPre >>

\* conn.wait_for_event() returns None
StepTransportFail ==
  /\ wstate = "ready"
  /\ pc = "blocked"
  /\ connAlive' = FALSE
  /\ callFailed' = TRUE
  /\ result' = NoEvent
  /\ resultOf' = 0
  /\ pc' = "unwind"
  /\ UNCHANGED << windowvars, kbd_state, kbd_mods, lastRaw, held, ctrlPre,
                  titlevars, fn, internvars, borrow, symState, nraw, produced,
                  delivered, depth >>

\* translate_event, every arm but the key arms and the keymap-extension branch
TranslatePlain ==
  /\ wstate = "ready"
  /\ pc = "translate"
  /\ BitAnd8(lastRaw.response_type, BitNot8(128)) \notin {KEY_PRESS, KEY_RELEASE, kbd_ev}
  /\ \E o \in translate_event(lastRaw, atoms, kbd_ev, device_id, kbd_state, kbd_mods) :
       /\ result' = o.event
       /\ resultOf' = IF o.event # NoEvent THEN nraw ELSE 0
       /\ produced' = IF o.event # NoEvent THEN Append(produced, nraw) ELSE produced
  /\ pc' = "unwind"
  /\ UNCHANGED << windowvars, kbd_state, kbd_mods, connAlive, callFailed,
                  lastRaw, held, ctrlPre, titlevars, fn, internvars, borrow,
                  symState, nraw, delivered, depth >>

\* make_key_event: self.state.borrow().key_get_one_sym(xcode), the borrow
KeySymBorrow ==
  /\ wstate = "ready"
  /\ pc = "translate"
  /\ BitAnd8(lastRaw.response_type, BitNot8(128)) \in {KEY_PRESS, KEY_RELEASE}
  /\ wstate' = IF borrow >= 0 THEN wstate ELSE "borrow_panic"
  /\ borrow' = IF borrow >= 0 THEN ref_take(borrow) ELSE borrow
  /\ symState' = IF borrow >= 0 THEN kbd_state ELSE symState
  /\ pc' = "sym_held"
  /\ UNCHANGED << setupFailure, winExists, atoms, kbd_ev, device_id, kbd_state,
                  kbd_mods, connAlive, result, callFailed, lastRaw, held,
                  ctrlPre, titlevars, fn, internvars, nraw, produced, delivered,
                  depth, resultOf >>

\* make_key_event: the end of that statement
KeySymDrop ==
  /\ wstate = "ready"
  /\ pc = "sym_held"
  /\ borrow' = ref_drop(borrow)
  /\ pc' = "sym_done"
  /\ UNCHANGED << windowvars, kbd_state, kbd_mods, connAlive, result,
                  callFailed, lastRaw, held, ctrlPre, titlevars, fn, internvars,
                  symState, nraw, produced, delivered, depth, resultOf >>

\* make_key_event: the key code and the update of the modifier cache
KeyMods ==
  /\ wstate = "ready"
  /\ pc = "sym_done"
  /\ kbd_mods' = update_mods(kbd_mods, lastRaw.detail,
                   BitAnd8(lastRaw.response_type, BitNot8(128)) = KEY_PRESS)
  /\ pc' = "mods_done"
  /\ UNCHANGED << windowvars, kbd_state, connAlive, result, callFailed,
                  lastRaw, held, ctrlPre, titlevars, fn, stepvars >>

\* make_key_event: Event::KeyRelease is built
KeyReleaseBuilt ==
  /\ wstate = "ready"
  /\ pc = "mods_done"
  /\ BitAnd8(lastRaw.response_type, BitNot8(128)) = KEY_RELEASE
  /\ \E sym \in get_keysym(key_get_one_sym(symState, lastRaw.detail)) :
       result' = KeyEvent("KeyRelease", sym, get_keycode(lastRaw.detail),
                          key_text(kbd_state, lastRaw.detail, FALSE))
  /\ resultOf' = nraw
  /\ produced' = Append(produced, nraw)
  /\ pc' = "unwind"
  /\ UNCHANGED << windowvars, kbd_state, kbd_mods, connAlive, callFailed,
                  lastRaw, held, ctrlPre, titlevars, fn, internvars, borrow,
                  symState, nraw, delivered, depth >>

\* make_key_event: Event::KeyPress is built, the text read under a borrow
KeyTextBorrow ==
  /\ wstate = "ready"
  /\ pc = "mods_done"
  /\ BitAnd8(lastRaw.response_type, BitNot8(128)) = KEY_PRESS
  /\ wstate' = IF borrow >= 0 THEN wstate ELSE "borrow_panic"
  /\ borrow' = IF borrow >= 0 THEN ref_take(borrow) ELSE borrow
  /\ \E sym \in get_keysym(key_get_one_sym(symState, lastRaw.detail)) :
       result' = IF borrow >= 0
                   THEN KeyEvent("KeyPress", sym, get_keycode(lastRaw.detail),
                                 key_text(kbd_state, lastRaw.detail, TRUE))
                   ELSE result
  /\ pc' = "text_held"
  /\ UNCHANGED << setupFailure, winExists, atoms, kbd_ev, device_id, kbd_state,
                  kbd_mods, connAlive, callFailed, lastRaw, held, ctrlPre,
                  titlevars, fn, internvars, symState, nraw, produced,
                  delivered, depth, resultOf >>

\* make_key_event: the end of that statement
KeyTextDrop ==
  /\ wstate = "ready"
  /\ pc = "text_held"
  /\ borrow' = ref_drop(borrow)
  /\ resultOf' = nraw
  /\ produced' = Append(produced, nraw)
  /\ pc' = "unwind"
  /\ UNCHANGED << windowvars, kbd_state, kbd_mods, connAlive, result,
                  callFailed, lastRaw, held, ctrlPre, titlevars, fn, internvars,
                  symState, nraw, delivered, depth >>

\* the keymap-extension branch takes the notification for a state change of
\* the bound device
XkbForBoundState ==
  /\ BitAnd8(lastRaw.response_type, BitNot8(128)) = kbd_ev
  /\ lastRaw.device_id = device_id % 256
  /\ lastRaw.xkb_type = STATE_NOTIFY

\* translate_event, the keymap-extension branch: nothing to update
XkbSkip ==
  /\ wstate = "ready"
  /\ pc = "translate"
  /\ BitAnd8(lastRaw.response_type, BitNot8(128)) = kbd_ev
  /\ ~XkbForBoundState
  /\ pc' = "recurse"
  /\ UNCHANGED << windowvars, kbd_state, kbd_mods, connAlive, result,
                  callFailed, lastRaw, held, ctrlPre, titlevars, fn, stepvars >>

\* update_state: self.state.borrow_mut().update_mask(...), the borrow
UpdBorrowMut ==
  /\ wstate = "ready"
  /\ pc = "translate"
  /\ XkbForBoundState
  /\ wstate' = IF borrow = 0 THEN wstate ELSE "borrow_panic"
  /\ borrow' = IF borrow = 0 THEN -1 ELSE borrow
  /\ kbd_state' = IF borrow = 0 THEN update_state(kbd_state, lastRaw) ELSE kbd_state
  /\ pc' = "upd_held"
  /\ UNCHANGED << setupFailure, winExists, atoms, kbd_ev, device_id, kbd_mods,
                  connAlive, result, callFailed, lastRaw, held, ctrlPre,
                  titlevars, fn, internvars, symState, nraw, produced,
                  delivered, depth, resultOf >>

\* update_state: the end of that statement
UpdDrop ==
  /\ wstate = "ready"
  /\ pc = "upd_held"
  /\ borrow' = 0
  /\ pc' = "recurse"
  /\ UNCHANGED << windowvars, kbd_state, kbd_mods, connAlive, result,
                  callFailed, lastRaw, held, ctrlPre, titlevars, fn, internvars,
                  symState, nraw, produced, delivered, depth, resultOf >>

\* translate_event, the keymap-extension branch: self.wait_event()
Recurse ==
  /\ wstate = "ready"
  /\ pc = "recurse"
  /\ depth' = depth + 1
  /\ pc' = "blocked"
  /\ UNCHANGED << windowvars, kbd_state, kbd_mods, connAlive, result,
                  callFailed, lastRaw, held, ctrlPre, titlevars, fn, internvars,
                  borrow, symState, nraw, produced, delivered, resultOf >>

\* a nested wait_event call returns into the keymap-extension branch
Unwind ==
  /\ wstate = "ready"
  /\ pc = "unwind"
  /\ depth > 0
  /\ depth' = depth - 1
  /\ result' = recursive_result(result)
  /\ resultOf' = IF recursive_result(result) = NoEvent THEN 0 ELSE resultOf
  /\ UNCHANGED << windowvars, kbd_state, kbd_mods, connAlive, pc, callFailed,
                  lastRaw, held, ctrlPre, titlevars, fn, internvars, borrow,
                  symState, nraw, produced, delivered >>

\* the outermost wait_event call returns to the application
Return ==
  /\ wstate = "ready"
  /\ pc = "unwind"
  /\ depth = 0
  /\ pc' = "returned"
  /\ delivered' = IF result # NoEvent THEN Append(delivered, resultOf) ELSE delivered
  /\ UNCHANGED << windowvars, kbd_state, kbd_mods, connAlive, result,
                  callFailed, lastRaw, held, ctrlPre, titlevars, fn, internvars,
                  borrow, symState, nraw, produced, depth, resultOf >>

NextSteps ==
  \/ ConnectFail
  \/ InternRequest
  \/ InternReply
  \/ FinishNew
  \/ StepCall
  \/ ReadKey
  \/ ReadXkb
  \/ ReadPlain
  \/ StepTransportFail
  \/ TranslatePlain
  \/ KeySymBorrow
  \/ KeySymDrop
  \/ KeyMods
  \/ KeyReleaseBuilt
  \/ KeyTextBorrow
  \/ KeyTextDrop
  \/ XkbSkip
  \/ UpdBorrowMut
  \/ UpdDrop
  \/ Recurse
  \/ Unwind
  \/ Return

SpecSteps == Init /\ [][NextSteps]_vars

(***************************************************************************)
(* Properties.                                                             *)
(***************************************************************************)
\* the kind of the raw event read last, without the sent-event bit
LastKind == BitAnd8(lastRaw.response_type, BitNot8(128))

Returned == wstate = "ready" /\ pc = "returned"

SemanticKinds ==
  {"Show", "Hide", "Expose", "Close", "Resize", "Move", "StateChange", "Enter",
   "Leave", "MousePress", "MouseRelease", "MouseMove", "KeyPress", "KeyRelease"}

\* C1: while the transport delivers raw events, a wait_event call never
\* returns an empty result: a call that returned without a transport failure
\* returned a semantic event.
C1_NeverEmpty ==
  (Returned /\ setupFailure = "none" /\ ~callFailed) => result.kind \in SemanticKinds

\* C2 (as stated): a client message whose type is the WM_PROTOCOLS atom and
\* whose first data word is the WM_DELETE_WINDOW atom yields Close, with no
\* other condition on the message.
C2_CloseOnAtomsOnly ==
  (/\ Returned
   /\ LastKind = CLIENT_MESSAGE
   /\ lastRaw.type = atoms["WM_PROTOCOLS"]
   /\ lastRaw.data0 = atoms["WM_DELETE_WINDOW"])
  => result = CloseEvent

\* C2 (amended): a client message whose type is the WM_PROTOCOLS atom, whose
\* format is 32 and whose first data word is the WM_DELETE_WINDOW atom yields
\* exactly the Close event.
C2_CloseOnFormat32 ==
  (/\ Returned
   /\ LastKind = CLIENT_MESSAGE
   /\ lastRaw.type = atoms["WM_PROTOCOLS"]
   /\ lastRaw.format = 32
   /\ lastRaw.data0 = atoms["WM_DELETE_WINDOW"])
  => result = CloseEvent

C2_Witness ==
  /\ Returned
  /\ lastRaw.response_type = CLIENT_MESSAGE + 128
  /\ lastRaw.type = atoms["WM_PROTOCOLS"]
  /\ lastRaw.format = 32
  /\ lastRaw.data0 = atoms["WM_DELETE_WINDOW"]
  /\ result.kind = "Close"

\* some key of the given key codes is physically held
HeldCode(codes) == \E k \in held : get_keycode(k) \in codes

\* C3: for each of ctrl, shift, alt and super, the Mods returned by get_mods
\* has the modifier's key bit set exactly when a left or right key of that
\* modifier is held.
C3_ModsMatchHeld ==
  wstate = "ready" =>
    /\ Mods_has_ctrl(get_mods(kbd_mods)) <=> HeldCode({"LeftCtrl", "RightCtrl"})
    /\ Mods_has_shift(get_mods(kbd_mods)) <=> HeldCode({"LeftShift", "RightShift"})
    /\ Mods_has_alt(get_mods(kbd_mods)) <=> HeldCode({"LeftAlt", "RightAlt"})
    /\ Mods_has_super(get_mods(kbd_mods)) <=> HeldCode({"LeftSuper", "RightSuper"})

\* C4: a left-ctrl release that follows the left-ctrl press returns the
\* running Mods to its value before the press, and while left-ctrl is held
\* without a release the ctrl bit stays set.
C4_CtrlRoundTrip ==
  /\ [][(ctrlPre # -1 /\ LeftCtrlCode \in held /\ LeftCtrlCode \notin held')
          => kbd_mods' = ctrlPre]_vars
  /\ [](LeftCtrlCode \in held => Mods_has_ctrl(get_mods(kbd_mods)))

\* C5: the Mods of a MousePress, MouseRelease or MouseMove event is the
\* running Mods cache, whatever modifier state the raw pointer event carries.
C5_PointerMods ==
  (Returned /\ result.kind \in {"MousePress", "MouseRelease", "MouseMove"})
  => result.mods = Mods_new(kbd_mods)

C5_Witness ==
  /\ Returned
  /\ result.kind = "MouseMove"
  /\ kbd_mods = MODS_LEFT_CTRL
  /\ result.mods = MODS_LEFT_CTRL
  /\ lastRaw.state = 0

\* C6: the outcome of a wait_event call ended by a transport failure differs
\* from every semantic event and from the outcome of a call that consumed an
\* unrecognized raw event.
C6_FailureDistinguishable ==
  (Returned /\ setupFailure = "none" /\ callFailed) =>
    /\ result.kind \notin SemanticKinds
    /\ \A rt \in OtherResponseTypes :
         \A o \in translate_event(OtherRaw(rt), atoms, kbd_ev, device_id,
                                  kbd_state, kbd_mods) :
           ~o.again => result # o.event

\* C7: after a setup failure (connection, unresolved atom, keymap extension,
\* rejected window creation) Window::new has not returned a Window.
C7_SetupFailureNoWindow == setupFailure # "none" => wstate # "ready"

\* the Buttons a held-button mask of a pointer event stands for
ButtonsOfState(st) ==
  (IF Bit(st, 8) = 1 THEN LEFT ELSE 0) + (IF Bit(st, 9) = 1 THEN MIDDLE ELSE 0)
    + (IF Bit(st, 10) = 1 THEN RIGHT ELSE 0)

\* C8: the Buttons of a MouseMove is decoded from the held-button mask the
\* motion event carries.
C8_MotionButtonsFromMask ==
  (Returned /\ LastKind = MOTION_NOTIFY) =>
    /\ result.kind = "MouseMove"
    /\ result.buttons = ButtonsOfState(lastRaw.state)

\* C9: a button press / release yields one MousePress / MouseRelease at the
\* event's coordinates whose Buttons is left, middle, right for detail 1, 2,
\* 3 and empty for any other detail.
C9_ButtonEvents ==
  (Returned /\ LastKind \in {BUTTON_PRESS, BUTTON_RELEASE}) =>
    /\ result.kind = IF LastKind = BUTTON_PRESS THEN "MousePress" ELSE "MouseRelease"
    /\ result.x = lastRaw.event_x /\ result.y = lastRaw.event_y
    /\ lastRaw.detail = 1 => result.buttons = LEFT
    /\ lastRaw.detail = 2 => result.buttons = MIDDLE
    /\ lastRaw.detail = 3 => result.buttons = RIGHT
    /\ lastRaw.detail \notin {1, 2, 3} => result.buttons = NONE

C9_Witness ==
  /\ Returned
  /\ LastKind = BUTTON_RELEASE
  /\ lastRaw.detail = 4
  /\ result.kind = "MouseRelease"
  /\ result.buttons = NONE
  /\ result.y = -2

\* C10: a key press yields one KeyPress whose text is the UTF-8 text of the
\* live state, a key release one KeyRelease whose text is empty.
C10_KeyText ==
  /\ (Returned /\ LastKind = KEY_PRESS) =>
       /\ result.kind = "KeyPress"
       /\ result.text = key_get_utf8(kbd_state, lastRaw.detail)
  /\ (Returned /\ LastKind = KEY_RELEASE) =>
       /\ result.kind = "KeyRelease"
       /\ result.text = ""

C10_Witness ==
  /\ Returned
  /\ LastKind = KEY_RELEASE
  /\ key_get_utf8(kbd_state, lastRaw.detail) = "A"
  /\ result.kind = "KeyRelease"
  /\ result.text = ""


\* C11: get_keysym resolves every raw key symbol to a variant of Sym
\* (Unknown included), and a value of the Latin-1 fast path that no variant
\* has, such as 0x7F, resolves to Unknown.
C11_KeysymInEnum ==
  fn.op = "get_keysym" =>
    /\ fn.out \in SymVariants
    /\ (fn.in[1] \in 32..127 /\ <<0, fn.in[1]>> \notin SymVariants /\ fn.in[1] \notin 97..122)
         => fn.out = Sym_Unknown

\* C12: the raw symbol of the k-th function key, k in 1..24, resolves to the
\* variant Sym::Fk.
C12_FunctionKeys ==
  (fn.op = "get_keysym" /\ fn.in[1] \in KEY_F1..KEY_F24) =>
    LET k == fn.in[1] - KEY_F1 + 1
    IN  k \in DOMAIN Sym_Fn /\ fn.out = Sym_Fn[k]

\* C13: a raw symbol v in 0x61..0x7A resolves to the symbol v - 0x20 resolves
\* to, the uppercase letter, and never to a symbol of its own value.
C13_CaseFold ==
  (fn.op = "get_keysym" /\ fn.in[1] \in 97..122) =>
    /\ get_keysym(fn.in[1] - 32) = {fn.out}
    /\ fn.out = <<0, fn.in[1] - 32>>
    /\ fn.out \in SymVariants

C13_Witness == fn.op = "get_keysym" /\ fn.in = <<122>> /\ fn.out = <<0, 90>>

\* C14: get_keycode returns a variant of Code for every scan code, and
\* Unknown for a scan code beyond the 256 entries of the table.
C14_KeycodeTotal ==
  fn.op = "get_keycode" =>
    /\ fn.out \in CodeVariants
    /\ fn.in[1] > 255 => fn.out = "Unknown"

C14_Witness == fn.op = "get_keycode" /\ fn.in = <<265>> /\ fn.out = "Unknown"

\* the union of the key bits and the side bits of Mods
DefinedMask == BitOr8(MODS_KEY_MASK, MODS_SIDE_MASK)

OutsideMask(x, mask) == \E i \in 0..7 : Bit(x, i) = 1 /\ Bit(mask, i) = 0

\* C15: Mods::new(x) equals Mods::new(x & 0x7F) for every byte x, and the
\* field of a Mods built by new or by an operator on built values has no bit
\* outside 0x7F.
C15_ModsMasked ==
  /\ fn.op = "Mods_new" =>
       /\ fn.out = Mods_new(BitAnd8(fn.in[1], DefinedMask))
       /\ \A i \in 0..7 : Bit(fn.out, i) = Bit(fn.in[1], i) * Bit(DefinedMask, i)
  /\ fn.op \in {"Mods_new", "Mods_bitand", "Mods_bitor", "Mods_bitxor"} =>
       ~OutsideMask(fn.out, DefinedMask)

C15_Witness == fn.op = "Mods_new" /\ fn.in = <<255>> /\ fn.out = DefinedMask

\* C16: Buttons::new keeps the bits of left, middle and right only, and the
\* operators &, | and ^ on Buttons give Buttons::new of the operator applied
\* to the fields.
C16_ButtonsClosed ==
  /\ fn.op = "Buttons_new" =>
       \A i \in 0..7 : Bit(fn.out, i) = IF i < 3 THEN Bit(fn.in[1], i) ELSE 0
  /\ fn.op = "Buttons_bitand" =>
       fn.out = Buttons_new(BitAnd8(Buttons_new(fn.in[1]), Buttons_new(fn.in[2])))
  /\ fn.op = "Buttons_bitor" =>
       fn.out = Buttons_new(BitOr8(Buttons_new(fn.in[1]), Buttons_new(fn.in[2])))
  /\ fn.op = "Buttons_bitxor" =>
       fn.out = Buttons_new(BitXor8(Buttons_new(fn.in[1]), Buttons_new(fn.in[2])))
  /\ (fn.op = "Buttons_bitand" /\ fn.in = <<LEFT, MIDDLE>>) => fn.out = NONE

C16_Witness == fn.op = "Buttons_bitor" /\ fn.in = <<5, 4>> /\ fn.out = 5

\* C17: for a Buttons m and a mask f over left, middle, right: has_all(f) iff
\* every bit of f is set in m, has_any(f) iff some bit of f is set in m,
\* has_none(f) iff not has_any(f), is_none iff no bit of m is set.
C17_ButtonsHas ==
  (fn.op = "Buttons_has" /\ fn.in[2] <= MASK) =>
    LET m == fn.in[1]
        f == fn.in[2]
    IN  /\ fn.out.has_all <=> \A i \in 0..2 : Bit(f, i) = 1 => Bit(m, i) = 1
        /\ fn.out.has_any <=> \E i \in 0..2 : Bit(f, i) = 1 /\ Bit(m, i) = 1
        /\ fn.out.has_none <=> ~fn.out.has_any
        /\ fn.out.is_none <=> \A i \in 0..2 : Bit(m, i) = 0

C17_Witness ==
  /\ fn.op = "Buttons_has"
  /\ fn.in = <<5, 7>>
  /\ ~fn.out.has_all
  /\ fn.out.has_any

\* C18: set_title with the current title issues no request and changes
\* nothing; with another value it stores the value, issues the WM_NAME
\* request and flushes, so that no request stays buffered and the server
\* holds the new name; get_title returns the stored title.
C18_SetTitleFlushes ==
  setupFailure = "none" =>
    /\ (lastCall.op = "set_title" /\ lastCall.arg = lastCall.old) =>
         /\ title = lastCall.old
         /\ Len(pending) = lastCall.npending
    /\ (lastCall.op = "set_title" /\ lastCall.arg # lastCall.old) =>
         /\ title = lastCall.arg
         /\ pending = << >>
         /\ srv_name = lastCall.arg
    /\ lastCall.op = "get_title" => lastCall.ret = title

\* C19: a Window whose construction completed holds a valid (non-zero)
\* handle for every name of the fixed atom list.
C19_AtomTableComplete ==
  wstate = "ready" => \A n \in AtomNames : atoms[n] # 0

\* the last raw event names both interned atoms of the close request
CloseRequestAtoms ==
  /\ lastRaw.type = atoms["WM_PROTOCOLS"]
  /\ lastRaw.data0 = atoms["WM_DELETE_WINDOW"]

\* C20: a call returns Close only for a client message whose type is the
\* WM_PROTOCOLS atom and whose first data word is the WM_DELETE_WINDOW atom;
\* every other client message yields no semantic event, and no raw event of
\* another kind yields Close.
C20_CloseOnlyOnRequest ==
  Returned =>
    /\ result.kind = "Close" => (LastKind = CLIENT_MESSAGE /\ CloseRequestAtoms)
    /\ (LastKind = CLIENT_MESSAGE /\ ~CloseRequestAtoms) => result = NoEvent

C20_Witness ==
  /\ Returned
  /\ LastKind = CLIENT_MESSAGE
  /\ lastRaw.format = 32
  /\ lastRaw.type # atoms["WM_PROTOCOLS"]
  /\ lastRaw.data0 = atoms["WM_DELETE_WINDOW"]
  /\ atoms["WM_DELETE_WINDOW"] # 0
  /\ result = NoEvent

\* the kind of a raw event: its response type without the sent bit
RawKind(raw) == BitAnd8(raw.response_type, BitNot8(128))

\* this step is one in which wait_event reads a raw event and translates it
Delivers == wstate = "ready" /\ pc = "waiting" /\ connAlive /\ connAlive'

\* this step reads a keymap state notification
StateNotifyRead ==
  /\ Delivers
  /\ RawKind(lastRaw') = kbd_ev
  /\ lastRaw'.xkb_type = STATE_NOTIFY

StateFields ==
  {"base_mods", "latched_mods", "locked_mods",
   "base_group", "latched_group", "locked_group"}

\* C21: a state notification of a device other than the bound one yields no
\* semantic event and leaves the running modifier cache and the
\* modifier-resolution state as they were.
C21_ForeignStateNotify ==
  [][(StateNotifyRead /\ lastRaw'.device_id # device_id % 256) =>
       /\ kbd_mods' = kbd_mods
       /\ kbd_state' = kbd_state
       /\ result' = NoEvent
       /\ pc' = "waiting"]_vars

C21_Witness ==
  /\ wstate = "ready"
  /\ pc = "waiting"
  /\ RawKind(lastRaw) = kbd_ev
  /\ lastRaw.xkb_type = STATE_NOTIFY
  /\ lastRaw.device_id # device_id % 256
  /\ lastRaw.payload # kbd_state
  /\ kbd_mods # 0

\* C22: a state notification of the bound device replaces the six components
\* of the modifier-resolution state with the values it carries and yields no
\* semantic event, and a key press that returns afterwards carries the symbol
\* and the text resolved against the state held then.
C22_StateNotifyApplied ==
  /\ [][(StateNotifyRead /\ lastRaw'.device_id = device_id % 256) =>
          /\ \A f \in StateFields : kbd_state'[f] = lastRaw'.payload[f]
          /\ result' = NoEvent
          /\ pc' = "waiting"]_vars
  /\ []((Returned /\ ~callFailed /\ LastKind = KEY_PRESS) =>
          /\ result.text = key_get_utf8(kbd_state, lastRaw.detail)
          /\ result.sym \in get_keysym(key_get_one_sym(kbd_state, lastRaw.detail)))

C22_Witness ==
  /\ wstate = "ready"
  /\ pc = "waiting"
  /\ RawKind(lastRaw) = kbd_ev
  /\ lastRaw.xkb_type = STATE_NOTIFY
  /\ lastRaw.device_id = device_id % 256
  /\ lastRaw.payload.locked_group = 1
  /\ kbd_state = lastRaw.payload

ModifierCodes ==
  {"LeftCtrl", "LeftShift", "LeftAlt", "LeftSuper",
   "RightCtrl", "RightShift", "RightAlt", "RightSuper"}

\* C23: the running modifier cache is empty when construction ends, and a
\* step changes it only if it reads a press or release of one of the eight
\* modifier key codes.
C23_ModsCacheFrame ==
  /\ [][kbd_mods' # kbd_mods =>
          /\ Delivers
          /\ RawKind(lastRaw') \in {KEY_PRESS, KEY_RELEASE}
          /\ get_keycode(lastRaw'.detail) \in ModifierCodes]_vars
  /\ []((wstate = "ready" /\ pc = "idle") => kbd_mods = 0)

C23_Witness ==
  /\ wstate = "ready"
  /\ pc = "waiting"
  /\ RawKind(lastRaw) = kbd_ev
  /\ lastRaw.xkb_type = MAP_NOTIFY
  /\ lastRaw.device_id = device_id % 256
  /\ Mods_has_ctrl(get_mods(kbd_mods))
  /\ Mods_has_shift(get_mods(kbd_mods))

\* C24: right after the press of a modifier key, exactly one of is_left and
\* is_right holds of the running Mods, and it is the side of that key.
C24_SideOfLastModifier ==
  (Returned /\ ~callFailed /\ LastKind = KEY_PRESS
     /\ get_keycode(lastRaw.detail) \in ModifierCodes) =>
    LET m == get_mods(kbd_mods)
        left == get_keycode(lastRaw.detail) \in
                  {"LeftCtrl", "LeftShift", "LeftAlt", "LeftSuper"}
    IN  /\ Mods_is_left(m) # Mods_is_right(m)
        /\ Mods_is_left(m) <=> left

\* C28: the key code table holds neither LeftSuper nor RightSuper, no key
\* code has the meta bit in its mask, and the running Mods never has the super
\* bit or the meta bit.  The table and the masks are constants: they are
\* examined in the states before the first wait_event call.
C28_NoSuperNoMeta ==
  /\ pc = "idle" =>
       /\ \A xcode \in 0..255 : get_keycode(xcode) \notin {"LeftSuper", "RightSuper"}
       /\ \A code \in CodeVariants : BitAnd8(mod_mask_of(code), MODS_META_MASK) = 0
  /\ ~Mods_has_super(get_mods(kbd_mods))
  /\ ~Mods_has_meta(get_mods(kbd_mods))

C28_Witness ==
  /\ Returned
  /\ ~callFailed
  /\ LastKind = KEY_PRESS
  /\ key_get_one_sym(kbd_state, lastRaw.detail) = 65515
  /\ result.code = "Unknown"
  /\ result.sym = keysym_map[65515]
  /\ kbd_mods # 0

ProducedKinds ==
  {"KeyPress", "KeyRelease", "MousePress", "MouseRelease", "MouseMove",
   "Enter", "Leave", "Close"}

\* C29: what wait_event returns is empty or one of KeyPress, KeyRelease,
\* MousePress, MouseRelease, MouseMove, Enter, Leave and Close; Show, Hide,
\* Expose, Resize, Move and StateChange are never returned.
C29_ProducedKinds ==
  /\ result = NoEvent \/ result.kind \in ProducedKinds
  /\ result.kind \notin {"Show", "Hide", "Expose", "Resize", "Move", "StateChange"}

C29_Witness ==
  /\ Returned
  /\ ~callFailed
  /\ LastKind = EXPOSE
  /\ result = NoEvent

\* C30: a new-keyboard or map notification changes neither the
\* modifier-resolution state nor the bound device identifier nor the modifier
\* cache, and after construction the state changes only when a state
\* notification of the bound device is read.
C30_OnlyStateNotify ==
  /\ [][(Delivers /\ RawKind(lastRaw') = kbd_ev
           /\ lastRaw'.xkb_type \in {NEW_KEYBOARD_NOTIFY, MAP_NOTIFY}) =>
          /\ kbd_state' = kbd_state
          /\ device_id' = device_id
          /\ kbd_mods' = kbd_mods
          /\ pc' = "waiting"]_vars
  /\ [][(wstate = "ready" /\ kbd_state' # kbd_state) =>
          (StateNotifyRead /\ lastRaw'.device_id = device_id % 256)]_vars
  /\ [][wstate = "ready" => device_id' = device_id]_vars

C30_Witness ==
  /\ wstate = "ready"
  /\ pc = "waiting"
  /\ RawKind(lastRaw) = kbd_ev
  /\ lastRaw.xkb_type = NEW_KEYBOARD_NOTIFY
  /\ lastRaw.device_id = device_id % 256
  /\ lastRaw.payload # kbd_state

\* C25: no intern reply is awaited before the request of every name of the
\* list is issued, the requests are issued in the order of the list, and the
\* i-th reply is stored under the i-th name: the handle the server holds for
\* that name, or none.
C25_InternPipelined ==
  /\ nreplies > 0 => Len(cookies) = Atom_num_variants
  /\ \A i \in 1..Len(cookies) : cookies[i] = Atom[i]
  /\ wstate = "start" => \A i \in (nreplies + 1)..Atom_num_variants : atoms[Atom[i]] = 0
  /\ \A i \in 1..nreplies : atoms[Atom[i]] \in {0, ServerAtom(i)}

C25_Witness ==
  /\ wstate = "ready"
  /\ Len(cookies) = Atom_num_variants
  /\ nreplies = Atom_num_variants
  /\ \A i \in 1..Atom_num_variants : atoms[Atom[i]] = ServerAtom(i)

StrictlyIncreasing(q) == \A i, j \in 1..Len(q) : i < j => q[i] < q[j]

IsPrefix(p, q) == Len(p) <= Len(q) /\ \A i \in 1..Len(p) : p[i] = q[i]

\* the effects of the raw event read last are in place
EffectsComplete ==
  /\ borrow = 0
  /\ XkbForBoundState => \A f \in StateFields : kbd_state[f] = lastRaw.payload[f]
  /\ BitAnd8(lastRaw.response_type, BitNot8(128)) = KEY_PRESS =>
       LET mask == mod_mask_of(get_keycode(lastRaw.detail))
       IN  BitAnd8(kbd_mods, mask) = mask

\* C26: whenever wait_event asks the transport for a raw event or returns,
\* the effects of the raw event read before are complete; a raw event yields
\* at most one semantic event; the semantic events are returned in the order
\* of their raw events, each once, and when a call has returned none is
\* missing.
C26_OneAtATime ==
  /\ (wstate = "ready" /\ pc \in {"blocked", "returned"}) => EffectsComplete
  /\ StrictlyIncreasing(produced)
  /\ \A i \in 1..Len(produced) : produced[i] \in 1..nraw
  /\ StrictlyIncreasing(delivered)
  /\ IsPrefix(delivered, produced)
  /\ (wstate = "ready" /\ pc \in {"idle", "returned"}) => delivered = produced
  /\ (pc = "returned" /\ result # NoEvent) => resultOf = nraw

C26_Witness ==
  /\ pc = "returned"
  /\ nraw = 3
  /\ produced = <<2, 3>>
  /\ delivered = <<2, 3>>
  /\ result.kind = "KeyRelease"

=============================================================================
